---- MODULE Spec2Model ----
(***************************************************************************)
(* The note store (useNotesStore), the note-editing view (Note.tsx) with   *)
(* its autosave debounce and keyboard shortcuts, and the sidebar handlers  *)
(* that drive the store.                                                   *)
(*                                                                         *)
(* Strings are TLA+ strings, ids are small integers drawn by generateId,   *)
(* time is in milliseconds (Date.now() is the variable now).               *)
(***************************************************************************)
EXTENDS Integers, Sequences, FiniteSets, TLC

---------------------------------------------------------------------------
(* Bounds of the model                                                     *)

\* generateId draws from 1..NumIds
NumIds == 3
\* addNote is explored while fewer than MaxNotes notes exist
MaxNotes == 3
\* addMessage is explored while the note has fewer than MaxMsgs messages
MaxMsgs == 2
\* the clock advances at most MaxTicks times under Spec
MaxTicks == 1
\* store calls explored in one run of Spec
MaxCalls == 2
\* the clock advances at most MaxNoteTicks times under SpecNote
MaxNoteTicks == 3
\* store calls explored in one run of SpecNote; the user's events are
\* explored while a store call can still follow them
MaxNoteCalls == 2
\* the clock runs for at most MaxChatTicks ticks under SpecChat
MaxChatTicks == 3
\* utterances submitted in one run of SpecChat
MaxSubmits == 2
\* utterances submitted in one run of SpecTalk
MaxTalkSubmits == 4

---------------------------------------------------------------------------
(* Values                                                                  *)

\* activeNoteId: string | null  -- null is NullId, ids are 1..NumIds
NullId == 0
Ids == 1..NumIds

\* getActiveNote's null
null == [null |-> TRUE]

\* mutant: the debounce interval is longer than a second
AUTOSAVE_DELAY_Long == 1000 + 500

\* setTimeout(..., 1000) of the autosave effect
AUTOSAVE_DELAY == 1000
\* resolution of the clock: two ticks per debounce interval
TickMs == 1000 \div 2
\* Date.now() at start; the second seed note is dated 5 minutes before it
FIVE_MINUTES == 1000 * 60 * 5
StartTime == FIVE_MINUTES

SEED_TITLE_1 == "Welcome to Notes Editor"
SEED_CONTENT_1 == "<h1>Welcome to the Notes Editor</h1><p>This is your first note. You can edit it or create a new one.</p><ul><li>Click the edit button to start editing</li><li>Use the AI button to chat with AI</li></ul>"
SEED_TITLE_2 == "Getting Started with TipTap"
SEED_CONTENT_2 == "<h1>TipTap Editor</h1><p>This editor supports rich text formatting:</p><h2>Headings</h2><h3>Subheadings</h3><ul><li>Bullet lists</li><li>With multiple items</li></ul><ol><li>Numbered lists</li><li>Work too!</li></ol>"
UNTITLED == "Untitled Note"
EMPTY_DOC == "<p></p>"

\* JavaScript truthiness of a string: "" is falsy
Truthy(s) == s # ""

\* inputs of the store's callers
TitleInputs == {"", "A"}
ContentInputs == {"", "<p>B</p>"}
AddTitleArgs == {<<>>, <<"">>, <<" ">>, <<"A">>}
MsgInputs == {[content |-> "hi", sender |-> "user"], [content |-> "ok", sender |-> "ai"]}
DataFields == {"title", "content", "chatHistory"}
\* the search terms tried on getFilteredNotes
SearchTerms == {"", " ", "Notes", "TIPTAP", "h1", "b", "zz"}
\* what the user types: into the title input, into the editor, into the
\* sidebar's new-note input; and the keys pressed
EditTitles == {"", "T"}
EditContents == {"", "<p>X</p>"}
NewNoteTitles == {"", " ", "A"}
Keys == {"s", "S", "m", "M", "/", "a"}
\* what the user types into the chat input
LONG_UTTERANCE == "Zebras Quickly Jump Over Seven Lazy Foxes Again And Again Until The Sun Sets Beyond The Quiet Green Valley Of Kings"
ChatInputs == {" ", "hi", LONG_UTTERANCE}
\* what the user types in a longer conversation
TalkInputs == {"hi"}
\* ctrlKey and metaKey of a key event
Modifiers == {<<FALSE, FALSE>>, <<TRUE, FALSE>>, <<FALSE, TRUE>>}

---------------------------------------------------------------------------
(* Strings.  A string value of the model is a TLA+ string; the string      *)
(* methods work on its characters.                                         *)

\* the characters of a string, each a string of length one
Chars(s) == [i \in 1..Len(s) |-> SubSeq(s, i, i)]

\* the string with the characters cs
RECURSIVE Str(_)
Str(cs) == IF cs = <<>> THEN "" ELSE Head(cs) \o Str(Tail(cs))

UpperCase == <<"A", "B", "C", "D", "E", "F", "G", "H", "I", "J", "K", "L", "M",
               "N", "O", "P", "Q", "R", "S", "T", "U", "V", "W", "X", "Y", "Z">>
LowerCase == <<"a", "b", "c", "d", "e", "f", "g", "h", "i", "j", "k", "l", "m",
               "n", "o", "p", "q", "r", "s", "t", "u", "v", "w", "x", "y", "z">>

\* String.prototype.toLowerCase on one character
toLowerCase(k) ==
    IF \E i \in 1..Len(UpperCase) : UpperCase[i] = k
    THEN LowerCase[CHOOSE i \in 1..Len(UpperCase) : UpperCase[i] = k]
    ELSE k

\* String.prototype.toLowerCase on the characters of a string
LowerChars(cs) == [i \in 1..Len(cs) |-> toLowerCase(cs[i])]

\* String.prototype.trim: the white space at both ends is dropped
trim(s) ==
    LET inner == {k \in 1..Len(s) : SubSeq(s, k, k) # " "}
    IN IF inner = {} THEN ""
       ELSE SubSeq(s, CHOOSE k \in inner : \A m \in inner : k <= m,
                      CHOOSE k \in inner : \A m \in inner : k >= m)

\* String.prototype.includes on characters
includes(hay, needle) ==
    \E i \in 0..(Len(hay) - Len(needle)) :
        SubSeq(hay, i + 1, i + Len(needle)) = needle

\* the first index from i on at which cs holds the character c, 0 if none
IndexFrom(cs, c, i) ==
    LET at == {k \in i..Len(cs) : cs[k] = c}
    IN IF at = {} THEN 0 ELSE CHOOSE k \in at : \A m \in at : k <= m

\* replace(/<[^>]*>/g, ""): from the left, the first "<" is removed together
\* with everything up to the first ">" after it, and the search goes on behind
\* that ">"; when no ">" follows the first "<", nothing more is removed
RECURSIVE StripTagsFrom(_, _)
StripTagsFrom(cs, i) ==
    LET open == IndexFrom(cs, "<", i)
        close == IF open = 0 THEN 0 ELSE IndexFrom(cs, ">", open + 1)
    IN IF close = 0 THEN SubSeq(cs, i, Len(cs))
       ELSE SubSeq(cs, i, open - 1) \o StripTagsFrom(cs, close + 1)

StripTags(cs) == StripTagsFrom(cs, 1)

---------------------------------------------------------------------------
(* The chat assistant's replies: Chat.tsx.  The bullet character of the    *)
(* source's lists is written "*" here.                                     *)

WELCOME == "Hello! I'm your AI assistant. How can I help with your notes today?"

MARKDOWN_NOTICE ==
    "I noticed you mentioned markdown. This editor supports Markdown view which you can toggle with Ctrl+M. Would you like to know more about using markdown in your notes?"

SHORTCUTS_NOTICE ==
    "I noticed you mentioned keyboard shortcuts. This editor supports various shortcuts like Ctrl+B for bold, Ctrl+I for italic, and Ctrl+M for markdown view. Would you like to know more?"

GREETING_REPLY ==
    "Hello! How can I assist you with your notes today?"

THANKS_REPLY ==
    "You're welcome! I'm happy to help. Is there anything else you'd like to know?"

FORMATTING_REPLY ==
    "You can format text using the toolbar above the editor. For bold text, select the text and click the B button or use Ctrl+B. For italic, use the I button or Ctrl+I. For underline, use the U button or Ctrl+U."

HEADINGS_REPLY ==
    "To add headings, click on H1, H2, or H3 in the toolbar depending on the heading level you need. H1 is the largest heading, while H3 is the smallest."

LISTS_REPLY ==
    "You can create lists using the toolbar. Click the bullet list icon for unordered lists or the numbered list icon for ordered lists. You can also start a line with '- ' or '1. ' to automatically create a list."

SAVING_REPLY ==
    "All your notes are automatically saved as you type. You don't need to manually save anything! If you want to force a save, you can use the Ctrl+S keyboard shortcut."

SHORTCUTS_REPLY ==
    "Here are some useful keyboard shortcuts:\n* Ctrl+S: Force save the current note\n* Ctrl+M: Toggle Markdown view\n* Ctrl+/: Toggle this AI chat assistant\n* Ctrl+B: Bold text\n* Ctrl+I: Italic text\n* Ctrl+U: Underline text"

THEME_REPLY ==
    "You can toggle between dark and light mode by clicking the theme toggle button in the top-right corner of the editor. Your preference will be saved for future sessions."

LINKS_REPLY ==
    "To add a link, select the text you want to link and click the link icon in the toolbar, then enter the URL. To add an image, click the image icon and enter the image URL."

MARKDOWN_REPLY ==
    "This editor supports Markdown view. You can toggle between rich text and Markdown view by clicking the 'View as Markdown' button in the top bar or using the Ctrl+M keyboard shortcut."

FEATURES_REPLY ==
    "This notes app offers rich text editing with formatting, headings, lists, links, and images. Features include:\n* Dark/light mode\n* Markdown support\n* Auto-saving\n* AI assistant (that's me!)\n* Keyboard shortcuts\n\nWhat specific feature would you like to know more about?"

MEETING_TEMPLATE ==
    "For meeting notes, try this structure:\n\n**Meeting Title**\nDate: [Date]\nParticipants: [Names]\n\n**Agenda**\n1. [Item 1]\n2. [Item 2]\n\n**Discussion Points**\n- Key point 1\n- Key point 2\n\n**Action Items**\n- [ ] Task 1 (Owner, Due Date)\n- [ ] Task 2 (Owner, Due Date)\n\n**Next Steps**\n[Future plans or follow-up]"

LECTURE_TEMPLATE ==
    "For lecture notes, try the Cornell method:\n\n**Topic: [Subject]**\nDate: [Date]\n\n**Main Notes Section:**\n- Key point 1 with details\n- Key point 2 with details\n\n**Cue Column (add after class):**\n- Questions about the material\n- Keywords and concepts\n\n**Summary (add after class):**\nBrief paragraph summarizing the key concepts"

PROJECT_TEMPLATE ==
    "For project planning notes, try this structure:\n\n**Project Title**\n\n**Objective:**\n[Clear statement of what the project aims to achieve]\n\n**Key Deliverables:**\n1. [Deliverable 1]\n2. [Deliverable 2]\n\n**Timeline:**\n- Phase 1: [Dates]\n- Phase 2: [Dates]\n\n**Resources Needed:**\n- [Resource 1]\n- [Resource 2]\n\n**Team Members:**\n- [Name] - [Role]\n- [Name] - [Role]\n\n**Notes:**\n[Additional information]"

JOURNAL_TEMPLATE ==
    "For a daily journal entry, try this format:\n\n**Date: [Date]**\n\n**Today's Focus:**\n[Main priorities or theme for the day]\n\n**Accomplishments:**\n- [What you completed]\n- [Progress made]\n\n**Challenges:**\n- [Obstacles encountered]\n- [Problems to solve]\n\n**Insights:**\n[What you learned]\n\n**Tomorrow's Plan:**\n- [Task 1]\n- [Task 2]"

TEMPLATE_MENU ==
    "I can suggest note templates for different purposes. Would you like a template for:\n* Meeting notes\n* Lecture notes\n* Project planning\n* Daily journal\n* Research notes\n\nJust ask for any of these specific templates!"

HELP_REPLY ==
    "I can help you with formatting, organization, and using features of this notes app. Ask me specific questions like 'How do I create headings?' or 'What keyboard shortcuts are available?' or 'Do you have a template for meeting notes?'"

ORGANIZE_REPLY ==
    "To better organize your notes, consider using headings (H1, H2, H3) to create a clear hierarchy. You can also use bullet points for key ideas and numbered lists for sequential information or steps."

WRITING_REPLY ==
    "For better writing, try to use clear headings and short paragraphs. The editor supports formatting that can help emphasize important points using bold or italic text. Would you like specific suggestions for improving your current note?"

WRITING_TIPS ==
    << "Use headings to create a clear structure in your notes",
       "Break down complex ideas into bullet points for easier comprehension",
       "Highlight key concepts or terms using bold or italic formatting",
       "Use numbered lists for step-by-step processes or sequences",
       "Keep paragraphs short and focused on a single idea",
       "Add links to external resources for deeper research",
       "Use consistent formatting for similar types of information",
       "Include images or diagrams to visualize complex concepts",
       "Use markdown for code snippets or technical content",
       "Review and reorganize your notes periodically for better clarity" >>

PRODUCTIVITY_TECHNIQUES ==
    << [name |-> "Pomodoro Technique",
        description |->
          "Work for 25 minutes, then take a 5-minute break. After 4 cycles, take a longer 15-30 minute break."],
       [name |-> "Cornell Note-Taking Method",
        description |->
          "Divide your page into sections: notes, cues, and summary. Take notes during class, add cues later, and write a summary at the bottom."],
       [name |-> "Mind Mapping",
        description |->
          "Create visual diagrams to connect related concepts. Start with a central idea and branch out with related thoughts."],
       [name |-> "Spaced Repetition",
        description |->
          "Review material at increasing intervals to enhance long-term retention."],
       [name |-> "Feynman Technique",
        description |->
          "Explain a concept in simple terms as if teaching it to someone else. This helps identify gaps in your understanding."] >>

FALLBACK_1 ==
    "That's an interesting question. To help you better with your notes, could you provide more specific details about what you're trying to accomplish?"

FALLBACK_ECHO_HEAD == "I understand you're asking about "

FALLBACK_ECHO_TAIL ==
    "... Could you tell me more about what you're trying to achieve so I can provide more targeted assistance?"

FALLBACK_3 ==
    "I'd be happy to help with that. Could you share a bit more about the specific challenge you're facing with your notes?"

FALLBACK_4 ==
    "Great question! The editor supports many features that might help with this. What specific outcome are you looking for?"

FALLBACK_5 ==
    "I can definitely help with that. Let me know if you'd like me to explain any particular feature in more detail."

NOTE_TOPICS ==
    << "formatting", "headings", "bold", "italic", "lists", "bullet points", "markdown", "save",
       "autosave", "keyboard shortcuts", "dark mode", "images", "links", "organize", "delete" >>

---------------------------------------------------------------------------
(* The response matcher: generateIntelligentResponse of Chat.tsx           *)

\* Math.random(), in tenths
Randoms == {0, 2, 5, 9}

\* Math.floor(Math.random() * n)
RandomIndex(r, n) == (r * n) \div 10

\* queryLower.includes(word), on the characters of queryLower
Has(ql, word) == includes(ql, Chars(word))

\* queryLower.match(/^(...).*/): queryLower starts with the word
StartsWith(ql, word) ==
    Len(Chars(word)) <= Len(ql) /\ SubSeq(ql, 1, Len(Chars(word))) = Chars(word)

\* Array.prototype.join
RECURSIVE join(_, _)
join(seq, sep) ==
    IF seq = <<>> THEN ""
    ELSE IF Len(seq) = 1 THEN seq[1]
    ELSE seq[1] \o sep \o join(Tail(seq), sep)

\* String.prototype.substring(0, n)
substring0(s, n) == SubSeq(s, 1, IF Len(s) < n THEN Len(s) ELSE n)

\* NOTE_TOPICS.filter((topic) => queryLower.includes(topic.toLowerCase()))
detectedTopics(ql) ==
    SelectSeq(NOTE_TOPICS, LAMBDA topic : includes(ql, LowerChars(Chars(topic))))

\* seq.includes(x) of an array
Contains(seq, x) == \E i \in 1..Len(seq) : seq[i] = x

\* a rule that does not match returns nothing
NoReply == ""

\* mutant: the keyboard-shortcuts notice is tested before the markdown notice
TopicNoticeShortcutsFirst(ql) ==
    LET topics == detectedTopics(ql)
    IN IF Len(topics) > 0 /\ ~Has(ql, "?") /\ ~Has(ql, "how") /\ ~Has(ql, "what")
       THEN IF Contains(topics, "keyboard shortcuts") THEN SHORTCUTS_NOTICE
            ELSE IF Contains(topics, "markdown") THEN MARKDOWN_NOTICE
            ELSE IF \E i \in 1..Len(topics) :
                       topics[i] \in {"formatting", "bold", "italic", "lists"}
            THEN "I see you're interested in " \o join(topics, ", ") \o
                 ". You can access these formatting options in the toolbar above the editor. Would you like specific instructions?"
            ELSE NoReply
       ELSE NoReply

\* topics detected and no direct question asked
TopicNotice(ql) ==
    LET topics == detectedTopics(ql)
    IN IF Len(topics) > 0 /\ ~Has(ql, "?") /\ ~Has(ql, "how") /\ ~Has(ql, "what")
       THEN IF Contains(topics, "markdown") THEN MARKDOWN_NOTICE
            ELSE IF Contains(topics, "keyboard shortcuts") THEN SHORTCUTS_NOTICE
            ELSE IF \E i \in 1..Len(topics) :
                       topics[i] \in {"formatting", "bold", "italic", "lists"}
            THEN "I see you're interested in " \o join(topics, ", ") \o
                 ". You can access these formatting options in the toolbar above the editor. Would you like specific instructions?"
            ELSE NoReply
       ELSE NoReply

\* /^(hi|hello|hey|greetings).*/
Greeting(ql) ==
    IF \/ StartsWith(ql, "hi") \/ StartsWith(ql, "hello")
       \/ StartsWith(ql, "hey") \/ StartsWith(ql, "greetings")
    THEN GREETING_REPLY ELSE NoReply

\* /(thank|thanks|thank you|appreciate it|grateful).*/
Gratitude(ql) ==
    IF \/ Has(ql, "thank") \/ Has(ql, "thanks") \/ Has(ql, "thank you")
       \/ Has(ql, "appreciate it") \/ Has(ql, "grateful")
    THEN THANKS_REPLY ELSE NoReply

\* mutant: the headings category tests "title" and h1..h3 only
IsHeadingsQuestionNoHeading(ql) ==
    Has(ql, "title") \/ Has(ql, "h1") \/ Has(ql, "h2") \/ Has(ql, "h3")

\* the headings category: "heading", "title", /h[1-3]/
IsHeadingsQuestion(ql) ==
    \/ Has(ql, "heading") \/ Has(ql, "title")
    \/ Has(ql, "h1") \/ Has(ql, "h2") \/ Has(ql, "h3")

\* questions about the editor's features
FeatureQuestion(ql, r) ==
    IF Has(ql, "how") \/ Has(ql, "what") \/ Has(ql, "?")
    THEN IF \/ Has(ql, "format") \/ Has(ql, "bold")
            \/ Has(ql, "italic") \/ Has(ql, "underline")
         THEN FORMATTING_REPLY
         ELSE IF IsHeadingsQuestion(ql) THEN HEADINGS_REPLY
         ELSE IF Has(ql, "list") \/ Has(ql, "bullet") \/ Has(ql, "numbered")
         THEN LISTS_REPLY
         ELSE IF Has(ql, "save") \/ Has(ql, "autosave") THEN SAVING_REPLY
         ELSE IF Has(ql, "shortcut") \/ Has(ql, "keyboard") THEN SHORTCUTS_REPLY
         ELSE IF \/ Has(ql, "dark") \/ Has(ql, "light")
                 \/ Has(ql, "theme") \/ Has(ql, "mode")
         THEN THEME_REPLY
         ELSE IF \/ Has(ql, "link") \/ Has(ql, "url") \/ Has(ql, "image")
                 \/ Has(ql, "picture") \/ Has(ql, "photo")
         THEN LINKS_REPLY
         ELSE IF Has(ql, "markdown") THEN MARKDOWN_REPLY
         ELSE IF \/ Has(ql, "writing") \/ Has(ql, "tip") \/ Has(ql, "advice")
                 \/ Has(ql, "improve") \/ Has(ql, "better")
         THEN "Here's a writing tip: " \o
              WRITING_TIPS[RandomIndex(r, Len(WRITING_TIPS)) + 1] \o
              ". Would you like another tip or more specific advice about a particular aspect of note-taking?"
         ELSE IF \/ Has(ql, "study") \/ Has(ql, "technique") \/ Has(ql, "method")
                 \/ Has(ql, "productivity") \/ Has(ql, "focus")
                 \/ Has(ql, "concentrate")
         THEN LET technique ==
                    PRODUCTIVITY_TECHNIQUES[
                        RandomIndex(r, Len(PRODUCTIVITY_TECHNIQUES)) + 1]
              IN "You might want to try the **" \o technique.name \o "**: " \o
                 technique.description \o
                 " Would you like to hear about other productivity techniques?"
         ELSE IF Has(ql, "feature") \/ Has(ql, "do") \/ Has(ql, "can")
         THEN FEATURES_REPLY
         ELSE NoReply
    ELSE NoReply

\* note types and templates
TemplateRequest(ql) ==
    IF \/ Has(ql, "template") \/ Has(ql, "type of note")
       \/ Has(ql, "structure") \/ Has(ql, "format for")
    THEN IF Has(ql, "meeting") \/ Has(ql, "minutes") THEN MEETING_TEMPLATE
         ELSE IF Has(ql, "lecture") \/ Has(ql, "class") \/ Has(ql, "course")
         THEN LECTURE_TEMPLATE
         ELSE IF Has(ql, "project") \/ Has(ql, "plan") THEN PROJECT_TEMPLATE
         ELSE IF Has(ql, "daily") \/ Has(ql, "journal") \/ Has(ql, "diary")
         THEN JOURNAL_TEMPLATE
         ELSE TEMPLATE_MENU
    ELSE NoReply

\* commands or requests
HelpRequest(ql) ==
    IF Has(ql, "help") \/ Has(ql, "assist") THEN HELP_REPLY ELSE NoReply

\* the rules on context.join(" ").toLowerCase()
FromContext(context, r) ==
    IF Len(context) > 0
    THEN LET recentContext == LowerChars(Chars(join(context, " ")))
         IN IF \/ Has(recentContext, "organize")
               \/ Has(recentContext, "structure")
               \/ Has(recentContext, "arrange")
            THEN ORGANIZE_REPLY
            ELSE IF \/ Has(recentContext, "write") \/ Has(recentContext, "writing")
                    \/ Has(recentContext, "improve") \/ Has(recentContext, "better")
            THEN WRITING_REPLY
            ELSE IF \/ Has(recentContext, "focus")
                    \/ Has(recentContext, "concentrate")
                    \/ Has(recentContext, "productive")
                    \/ Has(recentContext, "distract")
            THEN LET technique ==
                       PRODUCTIVITY_TECHNIQUES[
                           RandomIndex(r, Len(PRODUCTIVITY_TECHNIQUES)) + 1]
                 IN "For better focus when taking notes, you might try the " \o
                    technique.name \o ": " \o technique.description
            ELSE NoReply
    ELSE NoReply

\* mutant: the echo is taken from the lower-cased query
thoughtfulResponsesLowerEcho(query) ==
    << FALLBACK_1,
       FALLBACK_ECHO_HEAD \o Str(LowerChars(Chars(substring0(query, 30))))
           \o FALLBACK_ECHO_TAIL,
       FALLBACK_3,
       FALLBACK_4,
       FALLBACK_5 >>

\* the default responses
thoughtfulResponses(query) ==
    << FALLBACK_1,
       FALLBACK_ECHO_HEAD \o substring0(query, 30) \o FALLBACK_ECHO_TAIL,
       FALLBACK_3,
       FALLBACK_4,
       FALLBACK_5 >>

\* mutant: a reply from the context goes before the rules on the utterance
FirstReplyContextFirst(replies) ==
    IF replies[Len(replies)] # NoReply
    THEN replies[Len(replies)]
    ELSE IF \E i \in 1..Len(replies) : replies[i] # NoReply
    THEN replies[CHOOSE i \in 1..Len(replies) :
                    /\ replies[i] # NoReply
                    /\ \A j \in 1..(i - 1) : replies[j] = NoReply]
    ELSE NoReply

\* the first rule that matches gives the reply
FirstReply(replies) ==
    IF \E i \in 1..Len(replies) : replies[i] # NoReply
    THEN replies[CHOOSE i \in 1..Len(replies) :
                    /\ replies[i] # NoReply
                    /\ \A j \in 1..(i - 1) : replies[j] = NoReply]
    ELSE NoReply

generateIntelligentResponse(query, context, r) ==
    LET queryLower == LowerChars(Chars(query))
        matched == FirstReply(<< TopicNotice(queryLower),
                                 Greeting(queryLower),
                                 Gratitude(queryLower),
                                 FeatureQuestion(queryLower, r),
                                 TemplateRequest(queryLower),
                                 HelpRequest(queryLower),
                                 FromContext(context, r) >>)
    IN IF matched # NoReply THEN matched
       ELSE thoughtfulResponses(query)[
                RandomIndex(r, Len(thoughtfulResponses(query))) + 1]

---------------------------------------------------------------------------
(* State                                                                   *)

VARIABLES
    notes,          \* NotesState.notes
    activeNoteId,   \* NotesState.activeNoteId
    storage,        \* the "notes-storage" slot of localStorage: <<>> when absent,
                    \* <<value>> with the JSON value written last
    now,            \* Date.now()
    lastCall,       \* history: the last store action called, with its arguments,
                    \* the store state it started from (pre) and its time (at)
    calls,          \* history: number of store actions called so far
    title,          \* Note: useState("")
    content,        \* Note: useState("")
    isEdited,       \* Note: useState(false)
    saveStatus,     \* Note: useState(null), "null" | "saving" | "saved"
    viewMode,       \* Note: useState("richtext")
    isChatOpen,     \* Note: useState(false)
    timers,         \* the live setTimeout timers of the autosave effect
    saveTimeoutRef, \* Note: useRef(null), the handle of the timer armed last, 0 for null
    lastEditAt,     \* history: Date.now() of the last edit, -1 before the first
    burstStart,     \* history: Date.now() of the first edit since the last commit or switch, -1 if none
    commits,        \* history: handleSave's updateNote calls since the last edit
    quiet,          \* history: no Ctrl+S and no change of active note since the last edit
    prevented,      \* history: defaultPrevented of the last keydown event
    messages,       \* Chat: useState([welcome]); <<>> while no Chat is mounted
    inputValue,     \* Chat: useState("")
    isTyping,       \* Chat: useState(false)
    conversationContext, \* Chat: useState([])
    chatTimers,     \* the setTimeout timers of handleSubmit still to fire, in the
                    \* order they were armed
    lastReply,      \* history: the reply computed last, with its inputs
    submits         \* history: number of utterances submitted so far

storeVars == <<notes, activeNoteId, storage>>
noteVars == <<title, content, isEdited, saveStatus, viewMode, isChatOpen,
              timers, saveTimeoutRef>>
editHist == <<lastEditAt, burstStart, commits, quiet>>
keyHist == <<prevented>>
chatVars == <<messages, inputValue, isTyping, conversationContext, chatTimers>>
chatHist == <<lastReply, submits>>
vars == <<notes, activeNoteId, storage, now, lastCall, calls,
          title, content, isEdited, saveStatus, viewMode, isChatOpen,
          timers, saveTimeoutRef, lastEditAt, burstStart, commits, quiet,
          prevented, messages, inputValue, isTyping, conversationContext,
          chatTimers, lastReply, submits>>

---------------------------------------------------------------------------
(* The store: useNotesStore                                                *)

\* the ids createDefaultNotes draws (one call draws two)
createDefaultNotes(g1, g2, t) ==
    << [id |-> g1, title |-> SEED_TITLE_1, content |-> SEED_CONTENT_1,
        chatHistory |-> <<>>, lastUpdated |-> t],
       [id |-> g2, title |-> SEED_TITLE_2, content |-> SEED_CONTENT_2,
        chatHistory |-> <<>>, lastUpdated |-> t - FIVE_MINUTES] >>

\* Array.prototype.findIndex on note.id === id; 0 stands for -1
findIndex(ns, id) ==
    IF \E i \in 1..Len(ns) : ns[i].id = id
    THEN CHOOSE i \in 1..Len(ns) :
            ns[i].id = id /\ \A j \in 1..(i - 1) : ns[j].id # id
    ELSE 0

getNoteById(ns, id) ==
    IF findIndex(ns, id) = 0 THEN null ELSE ns[findIndex(ns, id)]

getActiveNote(ns, aid) == getNoteById(ns, aid)

\* the test of getFilteredNotes' notes.filter, on the lower-cased term
MatchesTerm(note, lowerCaseSearchTerm) ==
    \/ includes(LowerChars(Chars(note.title)), lowerCaseSearchTerm)
    \/ includes(LowerChars(StripTags(Chars(note.content))), lowerCaseSearchTerm)

\* mutant: the blank search term is not answered with all notes
getFilteredNotesNoBlankCheck(ns, searchTerm) ==
    SelectSeq(ns, LAMBDA note : MatchesTerm(note, LowerChars(Chars(searchTerm))))

getFilteredNotes(ns, searchTerm) ==
    IF ~Truthy(trim(searchTerm)) THEN ns
    ELSE SelectSeq(ns, LAMBDA note :
                         MatchesTerm(note, LowerChars(Chars(searchTerm))))

getTotalNoteCount(ns) == Len(ns)

\* mutant: the snapshot leaves the selection out
partializeNotesOnly(ns, aid) == [notes |-> ns, activeNoteId |-> NullId]

\* partialize: the snapshot that persist writes
partialize(ns, aid) == [notes |-> ns, activeNoteId |-> aid]

\* JSON values: null, strings, numbers, arrays and objects
JsonNull == [t |-> "null"]
JsonString(v) == [t |-> "string", v |-> v]
JsonNumber(v) == [t |-> "number", v |-> v]
JsonArray(v) == [t |-> "array", v |-> v]
JsonObject(v) == [t |-> "object", v |-> v]

\* JSON.stringify of a message, of a note
stringifyMessage(m) ==
    JsonObject([id |-> JsonString(m.id), content |-> JsonString(m.content),
                sender |-> JsonString(m.sender),
                timestamp |-> JsonNumber(m.timestamp)])

stringifyNote(n) ==
    JsonObject([id |-> JsonString(n.id), title |-> JsonString(n.title),
                content |-> JsonString(n.content),
                chatHistory |->
                    JsonArray([k \in 1..Len(n.chatHistory) |->
                                 stringifyMessage(n.chatHistory[k])]),
                lastUpdated |-> JsonNumber(n.lastUpdated)])

\* what persist stores: JSON.stringify({ state: partialize(state), version: 0 })
stringify(snapshot) ==
    JsonObject([state |->
                  JsonObject([notes |->
                                JsonArray([k \in 1..Len(snapshot.notes) |->
                                             stringifyNote(snapshot.notes[k])]),
                              activeNoteId |->
                                IF snapshot.activeNoteId = NullId THEN JsonNull
                                ELSE JsonString(snapshot.activeNoteId)]),
                version |-> JsonNumber(0)])

\* JSON.parse of a stored message, of a stored note
parseMessage(j) ==
    [id |-> j.v.id.v, content |-> j.v.content.v, sender |-> j.v.sender.v,
     timestamp |-> j.v.timestamp.v]

parseNote(j) ==
    [id |-> j.v.id.v, title |-> j.v.title.v, content |-> j.v.content.v,
     chatHistory |-> [k \in 1..Len(j.v.chatHistory.v) |->
                        parseMessage(j.v.chatHistory.v[k])],
     lastUpdated |-> j.v.lastUpdated.v]

\* JSON.parse of the stored value, and its state
parse(j) ==
    LET st == j.v.state.v
    IN [notes |-> [k \in 1..Len(st.notes.v) |-> parseNote(st.notes.v[k])],
        activeNoteId |-> IF st.activeNoteId.t = "null" THEN NullId
                         ELSE st.activeNoteId.v]

\* Each action returns the new notes, the new activeNoteId and origin:
\* origin[i] is the index in the old notes of the object now at index i, or 0
\* when index i holds a new object (immer keeps untouched objects).
Identity(ns) == [i \in 1..Len(ns) |-> i]

\* mutant: the new note is put in front (unshift for push)
addNoteUnshift(ns, aid, titleArg, newId, t) ==
    LET given == IF titleArg = <<>> THEN "" ELSE titleArg[1]
        newNote == [id |-> newId,
                    title |-> IF Truthy(given) THEN given ELSE UNTITLED,
                    content |-> EMPTY_DOC,
                    chatHistory |-> <<>>,
                    lastUpdated |-> t]
    IN [notes |-> <<newNote>> \o ns,
        activeNoteId |-> newNote.id,
        origin |-> <<0>> \o Identity(ns),
        ret |-> newNote.id]

addNote(ns, aid, titleArg, newId, t) ==
    LET given == IF titleArg = <<>> THEN "" ELSE titleArg[1]
        newNote == [id |-> newId,
                    title |-> IF Truthy(given) THEN given ELSE UNTITLED,
                    content |-> EMPTY_DOC,
                    chatHistory |-> <<>>,
                    lastUpdated |-> t]
    IN [notes |-> Append(ns, newNote),
        activeNoteId |-> newNote.id,
        origin |-> Append(Identity(ns), 0),
        ret |-> newNote.id]

\* mutant: { ...data, lastUpdated } without ...note: fields not provided are reset
SpreadDataOnly(note, data, t) ==
    [id |-> note.id,
     title |-> IF "title" \in DOMAIN data THEN data.title ELSE "",
     content |-> IF "content" \in DOMAIN data THEN data.content ELSE "",
     chatHistory |-> IF "chatHistory" \in DOMAIN data THEN data.chatHistory
                     ELSE <<>>,
     lastUpdated |-> t]

\* { ...note, ...data, lastUpdated: Date.now() }
Spread(note, data, t) ==
    [id |-> note.id,
     title |-> IF "title" \in DOMAIN data THEN data.title ELSE note.title,
     content |-> IF "content" \in DOMAIN data THEN data.content ELSE note.content,
     chatHistory |-> IF "chatHistory" \in DOMAIN data THEN data.chatHistory
                     ELSE note.chatHistory,
     lastUpdated |-> t]

\* mutant: the provided values are not compared with the current ones
HasChangedNoCompare(note, data) ==
    \/ "title" \in DOMAIN data /\ Truthy(data.title)
    \/ "content" \in DOMAIN data /\ Truthy(data.content)
    \/ "chatHistory" \in DOMAIN data

\* the condition "Only update if data has actually changed"
HasChanged(note, data) ==
    \/ "title" \in DOMAIN data /\ Truthy(data.title) /\ data.title # note.title
    \/ "content" \in DOMAIN data /\ Truthy(data.content) /\ data.content # note.content
    \/ "chatHistory" \in DOMAIN data     \* an array, [] included, is truthy

\* mutant: the index is used without the not-found check, -1 reads the last note
updateNoteUnguarded(ns, aid, id, data, t) ==
    LET noteIndex == IF findIndex(ns, id) = 0 THEN Len(ns) ELSE findIndex(ns, id)
    IN IF noteIndex # 0 /\ HasChanged(ns[noteIndex], data)
       THEN [notes |-> [ns EXCEPT ![noteIndex] = Spread(ns[noteIndex], data, t)],
             activeNoteId |-> aid,
             origin |-> [Identity(ns) EXCEPT ![noteIndex] = 0]]
       ELSE [notes |-> ns, activeNoteId |-> aid, origin |-> Identity(ns)]

updateNote(ns, aid, id, data, t) ==
    LET noteIndex == findIndex(ns, id)
    IN IF noteIndex # 0 /\ HasChanged(ns[noteIndex], data)
       THEN [notes |-> [ns EXCEPT ![noteIndex] = Spread(ns[noteIndex], data, t)],
             activeNoteId |-> aid,
             origin |-> [Identity(ns) EXCEPT ![noteIndex] = 0]]
       ELSE [notes |-> ns, activeNoteId |-> aid, origin |-> Identity(ns)]

\* indices of the notes that notes.filter(note.id !== id) keeps, in order
RECURSIVE KeptFrom(_, _, _)
KeptFrom(ns, id, i) ==
    IF i > Len(ns) THEN <<>>
    ELSE IF ns[i].id # id THEN <<i>> \o KeptFrom(ns, id, i + 1)
    ELSE KeptFrom(ns, id, i + 1)

\* mutant: the branch for an emptied collection is missing
deleteNoteNoEmptyBranch(ns, aid, id) ==
    LET kept == KeptFrom(ns, id, 1)
        rest == [i \in 1..Len(kept) |-> ns[kept[i]]]
    IN [notes |-> rest,
        activeNoteId |-> IF aid = id /\ Len(rest) > 0 THEN rest[1].id ELSE aid,
        origin |-> kept]

deleteNote(ns, aid, id) ==
    LET kept == KeptFrom(ns, id, 1)
        rest == [i \in 1..Len(kept) |-> ns[kept[i]]]
    IN [notes |-> rest,
        activeNoteId |-> IF aid = id /\ Len(rest) > 0 THEN rest[1].id
                         ELSE IF Len(rest) = 0 THEN NullId
                         ELSE aid,
        origin |-> kept]

setActiveNote(ns, aid, id) ==
    [notes |-> ns, activeNoteId |-> id, origin |-> Identity(ns)]

\* mutant: the message is put in front of the history (unshift for push)
addMessageUnshift(ns, aid, noteId, message, newId, t) ==
    LET noteIndex == findIndex(ns, noteId)
        newMessage == [id |-> newId, content |-> message.content,
                       sender |-> message.sender, timestamp |-> t]
    IN IF noteIndex # 0
       THEN [notes |-> [ns EXCEPT
                          ![noteIndex].chatHistory = <<newMessage>> \o @,
                          ![noteIndex].lastUpdated = t],
             activeNoteId |-> aid,
             origin |-> [Identity(ns) EXCEPT ![noteIndex] = 0]]
       ELSE [notes |-> ns, activeNoteId |-> aid, origin |-> Identity(ns)]

addMessage(ns, aid, noteId, message, newId, t) ==
    LET noteIndex == findIndex(ns, noteId)
        newMessage == [id |-> newId, content |-> message.content,
                       sender |-> message.sender, timestamp |-> t]
    IN IF noteIndex # 0
       THEN [notes |-> [ns EXCEPT
                          ![noteIndex].chatHistory = Append(@, newMessage),
                          ![noteIndex].lastUpdated = t],
             activeNoteId |-> aid,
             origin |-> [Identity(ns) EXCEPT ![noteIndex] = 0]]
       ELSE [notes |-> ns, activeNoteId |-> aid, origin |-> Identity(ns)]

---------------------------------------------------------------------------
(* Initial state: first run, nothing in localStorage.                      *)
(* notes: createDefaultNotes(), activeNoteId: createDefaultNotes()[0].id   *)
(* are two calls, each drawing its own ids.                                *)

\* Ids are only compared for equality, so the draws are taken up to renaming:
\* the first draw is 1, a later draw is an earlier one or the next unused id.
StoreInit ==
    \E g1 \in {1}, k2 \in 1..2, k3 \in 1..3 :
      LET g2 == <<2, 1>>[k2]
          g3 == <<3, 1, 2>>[k3]
      IN
        /\ g3 <= (IF g2 = 1 THEN 2 ELSE 3)
        /\ notes = createDefaultNotes(g1, g2, StartTime)
        /\ activeNoteId = createDefaultNotes(g3, g3, StartTime)[1].id
        \* the hydration of persist at start finds no snapshot; it leaves the
        \* slot empty or writes the initial state, by the version of the library
        /\ storage \in {<<>>, <<stringify(partialize(notes, activeNoteId))>>}

HistInit ==
    /\ now = StartTime
    /\ lastCall = [op |-> "init"]
    /\ calls = 0
    /\ lastEditAt = -1
    /\ burstStart = -1
    /\ commits = 0
    /\ quiet = FALSE
    /\ prevented = FALSE
    /\ lastReply = [op |-> "none"]
    /\ submits = 0

\* no Chat is mounted
ChatInit ==
    /\ messages = <<>>
    /\ inputValue = ""
    /\ isTyping = FALSE
    /\ conversationContext = <<>>
    /\ chatTimers = <<>>

\* the store alone: the view is not mounted, its state is what useState gives
Init ==
    /\ StoreInit
    /\ HistInit
    /\ title = ""
    /\ content = ""
    /\ isEdited = FALSE
    /\ saveStatus = "null"
    /\ viewMode = "richtext"
    /\ isChatOpen = FALSE
    /\ timers = {}
    /\ saveTimeoutRef = 0
    /\ ChatInit

---------------------------------------------------------------------------
(* Store actions, called with any arguments                                *)

\* set(...) of the immer/persist store: the new state, and the snapshot written
Commit(r) ==
    /\ notes' = r.notes
    /\ activeNoteId' = r.activeNoteId
    /\ storage' = <<stringify(partialize(r.notes, r.activeNoteId))>>

\* history: the store state a call starts from
Pre == [notes |-> notes, activeNoteId |-> activeNoteId]

\* the data arguments tried on a note: fixed inputs and the note's own values
DataFor(ns, id) ==
    LET n == getNoteById(ns, id)
        ts == TitleInputs \cup (IF n = null THEN {} ELSE {n.title})
        cs == ContentInputs \cup (IF n = null THEN {} ELSE {n.content})
        hs == {<<>>} \cup (IF n = null THEN {} ELSE {n.chatHistory})
    IN UNION { { [f \in dom |-> CASE f = "title" -> t
                                  [] f = "content" -> c
                                  [] f = "chatHistory" -> h] :
                 t \in ts, c \in cs, h \in hs } : dom \in SUBSET DataFields }

CallAddNote ==
    /\ calls < MaxCalls
    /\ Len(notes) < MaxNotes
    /\ \E titleArg \in AddTitleArgs, newId \in Ids :
        LET r == addNote(notes, activeNoteId, titleArg, newId, now)
        IN /\ Commit(r)
           /\ lastCall' = [op |-> "addNote", title |-> titleArg, ret |-> r.ret,
                           pre |-> Pre, at |-> now]
    /\ calls' = calls + 1
    /\ UNCHANGED <<now, noteVars, editHist, keyHist, chatVars, chatHist>>

CallUpdateNote ==
    /\ calls < MaxCalls
    /\ \E id \in Ids : \E data \in DataFor(notes, id) :
        /\ Commit(updateNote(notes, activeNoteId, id, data, now))
        /\ lastCall' = [op |-> "updateNote", id |-> id, data |-> data,
                        pre |-> Pre, at |-> now]
    /\ calls' = calls + 1
    /\ UNCHANGED <<now, noteVars, editHist, keyHist, chatVars, chatHist>>

CallDeleteNote ==
    /\ calls < MaxCalls
    /\ \E id \in Ids :
        /\ Commit(deleteNote(notes, activeNoteId, id))
        /\ lastCall' = [op |-> "deleteNote", id |-> id, pre |-> Pre, at |-> now]
    /\ calls' = calls + 1
    /\ UNCHANGED <<now, noteVars, editHist, keyHist, chatVars, chatHist>>

CallSetActiveNote ==
    /\ calls < MaxCalls
    /\ \E id \in Ids :
        /\ Commit(setActiveNote(notes, activeNoteId, id))
        /\ lastCall' = [op |-> "setActiveNote", id |-> id, pre |-> Pre, at |-> now]
    /\ calls' = calls + 1
    /\ UNCHANGED <<now, noteVars, editHist, keyHist, chatVars, chatHist>>

CallAddMessage ==
    /\ calls < MaxCalls
    /\ \E noteId \in Ids, message \in MsgInputs, newId \in Ids :
        /\ getNoteById(notes, noteId) # null
              => Len(getNoteById(notes, noteId).chatHistory) < MaxMsgs
        /\ Commit(addMessage(notes, activeNoteId, noteId, message, newId, now))
        /\ lastCall' = [op |-> "addMessage", id |-> noteId, message |-> message,
                        pre |-> Pre, at |-> now]
    /\ calls' = calls + 1
    /\ UNCHANGED <<now, noteVars, editHist, keyHist, chatVars, chatHist>>

\* The page is loaded again: the store is created anew, with fresh seed notes,
\* and the hydration of persist merges the stored snapshot, if there is one,
\* over it ({ ...currentState, ...persistedState }).
Restart ==
    /\ calls < MaxCalls
    /\ IF storage # <<>>
       THEN /\ notes' = parse(storage[1]).notes
            /\ activeNoteId' = parse(storage[1]).activeNoteId
            /\ storage' = storage
       ELSE \E g1 \in Ids, g2 \in Ids, g3 \in Ids :
            /\ notes' = createDefaultNotes(g1, g2, now)
            /\ activeNoteId' = createDefaultNotes(g3, g3, now)[1].id
            /\ storage' \in {<<>>, <<stringify(partialize(notes', activeNoteId'))>>}
    /\ lastCall' = [op |-> "restart", stored |-> storage # <<>>,
                    pre |-> Pre, at |-> now]
    /\ calls' = calls + 1
    /\ UNCHANGED <<now, noteVars, editHist, keyHist, chatVars, chatHist>>

\* the selector getFilteredNotes, called with any search term: no set(), so
\* the store and the snapshot are left alone
CallGetFilteredNotes ==
    /\ calls < MaxCalls
    /\ \E searchTerm \in SearchTerms :
        lastCall' = [op |-> "getFilteredNotes", term |-> searchTerm,
                     ret |-> getFilteredNotes(notes, searchTerm),
                     pre |-> Pre, at |-> now]
    /\ calls' = calls + 1
    /\ UNCHANGED <<storeVars, now, noteVars, editHist, keyHist, chatVars, chatHist>>

\* time passes
Tick ==
    /\ now < StartTime + MaxTicks * TickMs
    /\ now' = now + TickMs
    /\ UNCHANGED <<storeVars, lastCall, calls, noteVars, editHist, keyHist, chatVars,
                   chatHist>>

\* the test of the Sidebar's notes.filter: the title and the content as
\* stored, lower-cased, markup included
SidebarMatches(note, searchTerm) ==
    \/ includes(LowerChars(Chars(note.title)), LowerChars(Chars(searchTerm)))
    \/ includes(LowerChars(Chars(note.content)), LowerChars(Chars(searchTerm)))

\* the Sidebar's filteredNotes, computed at each render from the store's notes
\* and the search input
filteredNotes(ns, searchTerm) ==
    IF trim(searchTerm) = "" THEN ns
    ELSE SelectSeq(ns, LAMBDA note : SidebarMatches(note, searchTerm))

\* onChange of the Sidebar's search input: setSearchTerm(e.target.value),
\* and the render lists filteredNotes (shown)
SearchInput ==
    /\ \E searchTerm \in SearchTerms :
        lastCall' = [op |-> "search", term |-> searchTerm,
                     shown |-> filteredNotes(notes, searchTerm),
                     pre |-> Pre, at |-> now]
    /\ UNCHANGED <<storeVars, now, calls, noteVars, editHist, keyHist, chatVars,
                   chatHist>>

Next ==
    \/ CallAddNote
    \/ CallUpdateNote
    \/ CallDeleteNote
    \/ CallSetActiveNote
    \/ CallAddMessage
    \/ CallGetFilteredNotes
    \/ Restart
    \/ Tick

Spec == Init /\ [][Next]_vars

\* the store with the Sidebar's search
NextSidebar ==
    \/ CallAddNote
    \/ CallUpdateNote
    \/ CallDeleteNote
    \/ SearchInput

SpecSidebar == Init /\ [][NextSidebar]_vars

---------------------------------------------------------------------------
(* The note-editing view: Note.tsx                                         *)
(*                                                                         *)
(* An event handler runs to completion, then React renders and runs the    *)
(* effects whose dependencies changed, and renders again for the state the *)
(* effects set, until nothing changes.  No timer can fire in between: the  *)
(* renders follow the handler at once, the debounce is a full second.      *)

\* the local state a render sees
Local(ti, co, ed, st) ==
    [title |-> ti, content |-> co, isEdited |-> ed, saveStatus |-> st]

\* activeNote?.id
OptId(a) == IF a = null THEN NullId ELSE a.id

\* Object.is(activeNote, previous activeNote) is false
ActiveObjChanged(ns0, aid0, r) ==
    LET i0 == findIndex(ns0, aid0)
        i1 == findIndex(r.notes, r.activeNoteId)
    IN \/ (i0 = 0) # (i1 = 0)
       \/ i1 # 0 /\ r.origin[i1] # i0

\* mutant: the timer is not cancelled
clearTimeoutNoop(tm, h) == tm

\* clearTimeout(handle): the timer, if it is still live, never fires
clearTimeout(tm, h) == { x \in tm : x.h # h }

\* the handle setTimeout returns: one no timer has and the ref does not hold
NewHandle(tm, ref) ==
    CHOOSE h \in 1..(Cardinality(tm) + 2) :
        /\ h # ref
        /\ \A x \in tm : x.h # h
        /\ \A k \in 1..(h - 1) : k = ref \/ \E x \in tm : x.h = k

\* handleSave as the render with local state c and active note a closes over it
SaveClosure(c, a) == [noteId |-> a.id, title |-> c.title, content |-> c.content]

\* mutant: no timer is ever cancelled, neither by the cleanup nor by the body
AutosaveEffectKeepsTimers(c, a, tm, ref, t) ==
    LET arm == c.isEdited /\ a # null
        h == NewHandle(tm, ref)
    IN IF arm
       THEN [timers |-> tm \cup {[h |-> h, fireAt |-> t + AUTOSAVE_DELAY,
                                  save |-> SaveClosure(c, a)]},
             ref |-> h,
             armed |-> TRUE]
       ELSE [timers |-> tm, ref |-> ref, armed |-> FALSE]

\* mutant: the effect returns no cleanup function
AutosaveEffectNoCleanup(c, a, tm, ref, t) ==
    LET arm == c.isEdited /\ a # null
        h == NewHandle(tm, ref)
    IN IF arm
       THEN [timers |-> (IF ref # 0 THEN clearTimeout(tm, ref) ELSE tm)
                          \cup {[h |-> h, fireAt |-> t + AUTOSAVE_DELAY,
                                 save |-> SaveClosure(c, a)]},
             ref |-> h,
             armed |-> TRUE]
       ELSE [timers |-> tm, ref |-> ref, armed |-> FALSE]

\* The autosave effect of a render whose dependencies [content, title,
\* isEdited, activeNote] changed: the cleanup of the previous run, then the body.
AutosaveEffect(c, a, tm, ref, t) ==
    LET cleaned == IF ref # 0 THEN clearTimeout(tm, ref) ELSE tm
        arm == c.isEdited /\ a # null
        h == NewHandle(cleaned, ref)
    IN IF arm
       THEN [timers |-> (IF ref # 0 THEN clearTimeout(cleaned, ref) ELSE cleaned)
                          \cup {[h |-> h, fireAt |-> t + AUTOSAVE_DELAY,
                                 save |-> SaveClosure(c, a)]},
             ref |-> h,
             armed |-> TRUE]
       ELSE [timers |-> cleaned, ref |-> ref, armed |-> FALSE]

\* The renders and effects that follow a handler.  pre is the local state of
\* the last render, c1 the local state the handler leaves, a0 and a1 the
\* active note before and after, objChanged whether a1 is another object.
Settle(pre, c1, a0, a1, objChanged, tm, ref, t) ==
    LET \* render 1: the init effect [activeNote?.id], the autosave effect
        initRuns == OptId(a0) # OptId(a1) /\ a1 # null
        deps1 == \/ c1.content # pre.content
                 \/ c1.title # pre.title
                 \/ c1.isEdited # pre.isEdited
                 \/ objChanged
        e1 == IF deps1 THEN AutosaveEffect(c1, a1, tm, ref, t)
              ELSE [timers |-> tm, ref |-> ref, armed |-> FALSE]
        \* the state the effects set: init effect first, setSaveStatus("saving") last
        c2 == Local(IF initRuns THEN a1.title ELSE c1.title,
                    IF initRuns THEN a1.content ELSE c1.content,
                    IF initRuns THEN FALSE ELSE c1.isEdited,
                    IF e1.armed THEN "saving"
                    ELSE IF initRuns THEN "saved" ELSE c1.saveStatus)
        \* render 2: activeNote is the same, the local state may differ
        deps2 == \/ c2.content # c1.content
                 \/ c2.title # c1.title
                 \/ c2.isEdited # c1.isEdited
        e2 == IF deps2 THEN AutosaveEffect(c2, a1, e1.timers, e1.ref, t)
              ELSE [timers |-> e1.timers, ref |-> e1.ref, armed |-> FALSE]
    IN [title |-> c2.title,
        content |-> c2.content,
        isEdited |-> c2.isEdited,
        saveStatus |-> IF e2.armed THEN "saving" ELSE c2.saveStatus,
        timers |-> e2.timers,
        ref |-> e2.ref]

\* the settled view becomes the state
Show(s) ==
    /\ title' = s.title
    /\ content' = s.content
    /\ isEdited' = s.isEdited
    /\ saveStatus' = s.saveStatus
    /\ timers' = s.timers
    /\ saveTimeoutRef' = s.ref

Committed == Local(title, content, isEdited, saveStatus)
ActiveNote == getActiveNote(notes, activeNoteId)

\* a handler that leaves the store alone and the local state c1
SettleLocal(c1) ==
    Settle(Committed, c1, ActiveNote, ActiveNote, FALSE, timers, saveTimeoutRef, now)

\* a handler that leaves the local state c1 and the store r
SettleStore(c1, r, tm) ==
    Settle(Committed, c1, ActiveNote, getActiveNote(r.notes, r.activeNoteId),
           ActiveObjChanged(notes, activeNoteId, r), tm, saveTimeoutRef, now)

\* first run with the view mounted: every effect runs once after the first render
Mounted ==
    Settle(Local("", "", FALSE, "null"), Local("", "", FALSE, "null"),
           null, ActiveNote, ActiveNote # null, {}, 0, now)

InitNote ==
    /\ StoreInit
    /\ HistInit
    /\ title = Mounted.title
    /\ content = Mounted.content
    /\ isEdited = Mounted.isEdited
    /\ saveStatus = Mounted.saveStatus
    /\ timers = Mounted.timers
    /\ saveTimeoutRef = Mounted.ref
    /\ viewMode = "richtext"
    /\ isChatOpen = FALSE
    /\ ChatInit

\* Math.min(a, b)
Min(a, b) == IF a <= b THEN a ELSE b

\* mutant: the delay is not capped
thinkingTimeUncapped(userQuery) == 1000 + Len(userQuery) * 20

\* handleSubmit's thinkingTime
thinkingTime(userQuery) == Min(1000 + Len(userQuery) * 20, 3000)

\* The initial message of a Chat.  A message of the model has the id, the
\* content and the role; its timestamp, which nothing reads, is left out.
welcome == [id |-> "welcome", content |-> WELCOME, role |-> "bot"]

\* Note renders <Chat> below its early return for no active note, when isChatOpen
ChatMounted == isChatOpen /\ ActiveNote # null

\* mutant: the context lists the most recent message first
ContextOfNewestFirst(m, ctx) ==
    IF Len(m) > 1
    THEN LET k == Min(Len(m), 5)
         IN [i \in 1..k |-> m[Len(m) + 1 - i].content]
    ELSE ctx

\* the effect on [messages]: messages.slice(-5).map((msg) => msg.content),
\* set when there is more than one message
ContextOf(m, ctx) ==
    IF Len(m) > 1
    THEN LET k == Min(Len(m), 5)
         IN [i \in 1..k |-> m[Len(m) - k + i].content]
    ELSE ctx

\* the local state of the Chat and the timers it armed
ChatLocal ==
    [messages |-> messages, inputValue |-> inputValue, isTyping |-> isTyping,
     conversationContext |-> conversationContext, timers |-> chatTimers]

\* The timers outlive what happens to the Chat: nothing cancels them.  orphan
\* says the Chat that armed the timer is unmounted, switched (history) that
\* the active note changed while the timer was pending.
MarkTimers(tm, orphan, switched) ==
    [i \in 1..Len(tm) |-> [tm[i] EXCEPT !.orphan = @ \/ orphan,
                                         !.switched = @ \/ switched]]

\* The Chat after a handler that leaves isChatOpen = open1 and the active note
\* a1: it stays mounted with its state (it has no key), is mounted anew with
\* the initial state, or is unmounted and its state is gone.
RenderChat(open1, a1) ==
    LET is == open1 /\ a1 # null
        switched == OptId(a1) # OptId(ActiveNote)
    IN IF ChatMounted /\ is
       THEN [ChatLocal EXCEPT !.timers = MarkTimers(chatTimers, FALSE, switched)]
       ELSE [messages |-> IF is THEN <<welcome>> ELSE <<>>,
             inputValue |-> "",
             isTyping |-> FALSE,
             conversationContext |-> <<>>,
             timers |-> MarkTimers(chatTimers, ChatMounted, switched)]

ShowChat(c) ==
    /\ messages' = c.messages
    /\ inputValue' = c.inputValue
    /\ isTyping' = c.isTyping
    /\ conversationContext' = c.conversationContext
    /\ chatTimers' = c.timers

\* handleTitleChange: the input exists while a note is active, and onChange
\* reports a value other than the one shown
TitleChange ==
    /\ calls < MaxNoteCalls
    /\ ActiveNote # null
    /\ \E v \in EditTitles :
        /\ v # title
        /\ Show(SettleLocal(Local(v, content, TRUE, saveStatus)))
    /\ lastEditAt' = now
    /\ burstStart' = (IF burstStart = -1 THEN now ELSE burstStart)
    /\ commits' = 0
    /\ quiet' = TRUE
    /\ UNCHANGED <<storeVars, now, lastCall, calls, viewMode, isChatOpen,
                   keyHist, chatVars, chatHist>>

\* handleContentChange: the editor is rendered in rich-text mode only
ContentChange ==
    /\ calls < MaxNoteCalls
    /\ ActiveNote # null
    /\ viewMode = "richtext"
    /\ \E v \in EditContents :
        /\ v # content
        /\ Show(SettleLocal(Local(title, v, TRUE, saveStatus)))
    /\ lastEditAt' = now
    /\ burstStart' = (IF burstStart = -1 THEN now ELSE burstStart)
    /\ commits' = 0
    /\ quiet' = TRUE
    /\ UNCHANGED <<storeVars, now, lastCall, calls, viewMode, isChatOpen,
                   keyHist, chatVars, chatHist>>

\* handleSave of a render with local state c and active note a (not null):
\* updateNote, setIsEdited(false), setSaveStatus("saved"); tm are the live timers
HandleSave(sv, by, tm) ==
    LET r == updateNote(notes, activeNoteId, sv.noteId,
                        [title |-> sv.title, content |-> sv.content], now)
    IN /\ Commit(r)
       /\ Show(SettleStore(Local(title, content, FALSE, "saved"), r, tm))
       /\ lastCall' = [op |-> "updateNote", id |-> sv.noteId,
                       data |-> [title |-> sv.title, content |-> sv.content],
                       by |-> by]
       /\ calls' = calls + 1
       /\ commits' = commits + 1
       /\ burstStart' = -1

\* the timer of the autosave effect fires: its handleSave runs
TimerFire ==
    /\ calls < MaxNoteCalls
    /\ \E x \in timers :
        /\ x.fireAt <= now
        /\ HandleSave(x.save, "timer", timers \ {x})
    /\ UNCHANGED <<now, viewMode, isChatOpen, lastEditAt, quiet,
                   keyHist, chatVars, chatHist>>

\* mutant: Ctrl+S is prevented only when it saves
PreventsDefaultExceptSave(ctrlPressed, k) == ctrlPressed /\ k \in {"m", "/"}

\* handleKeyDown's cases "s", "m" and "/" call e.preventDefault()
PreventsDefault(ctrlPressed, k) == ctrlPressed /\ k \in {"s", "m", "/"}

\* mutant: Ctrl+S saves a note without unsaved edits too
SavesOnKeyUnedited(ctrlPressed, k, edited, a) ==
    ctrlPressed /\ k = "s" /\ a # null

\* case "s": if (isEdited && activeNote) handleSave()
SavesOnKey(ctrlPressed, k, edited, a) ==
    ctrlPressed /\ k = "s" /\ edited /\ a # null

\* handleKeyDown on a key event with the modifiers mod and the key key
KeyEvent(mod, key) ==
    LET ctrlPressed == mod[1] \/ mod[2]
        k == toLowerCase(key)
        open1 == IF ctrlPressed /\ k = "/" THEN ~isChatOpen ELSE isChatOpen
    IN /\ prevented' = PreventsDefault(ctrlPressed, k)
       /\ IF SavesOnKey(ctrlPressed, k, isEdited, ActiveNote)
          THEN /\ HandleSave(SaveClosure(Committed, ActiveNote), "shortcut", timers)
               /\ quiet' = FALSE
               /\ UNCHANGED <<now, viewMode, isChatOpen, lastEditAt,
                              chatVars, chatHist>>
          ELSE /\ viewMode' = IF ctrlPressed /\ k = "m"
                              THEN (IF viewMode = "richtext" THEN "markdown"
                                    ELSE "richtext")
                              ELSE viewMode
               /\ isChatOpen' = open1
               /\ ShowChat(RenderChat(open1, ActiveNote))
               /\ quiet' = (quiet /\ ~(ctrlPressed /\ k = "s"))
               /\ UNCHANGED <<storeVars, now, lastCall, calls, title, content,
                              isEdited, saveStatus, timers, saveTimeoutRef,
                              lastEditAt, burstStart, commits, chatHist>>

\* the window's keydown listener
KeyDown ==
    /\ calls < MaxNoteCalls
    /\ \E mod \in Modifiers, key \in Keys : KeyEvent(mod, key)

\* Sidebar.handleNoteSelect: a click on a note of the list
NoteSelect ==
    /\ calls < MaxNoteCalls
    /\ \E i \in 1..Len(notes) :
        LET r == setActiveNote(notes, activeNoteId, notes[i].id)
        IN /\ Commit(r)
           /\ Show(SettleStore(Committed, r, timers))
           /\ ShowChat(RenderChat(isChatOpen,
                                  getActiveNote(r.notes, r.activeNoteId)))
           /\ lastCall' = [op |-> "setActiveNote", id |-> notes[i].id,
                           by |-> "sidebar"]
           /\ quiet' = (quiet /\ ~ActiveObjChanged(notes, activeNoteId, r))
           /\ burstStart' = (IF ActiveObjChanged(notes, activeNoteId, r) THEN -1
                             ELSE burstStart)
    /\ calls' = calls + 1
    /\ UNCHANGED <<now, viewMode, isChatOpen, lastEditAt, commits,
                   keyHist, chatHist>>

\* Sidebar.handleDeleteNote, confirmed
DeleteNote ==
    /\ calls < MaxNoteCalls
    /\ \E i \in 1..Len(notes) :
        LET r == deleteNote(notes, activeNoteId, notes[i].id)
        IN /\ Commit(r)
           /\ Show(SettleStore(Committed, r, timers))
           /\ ShowChat(RenderChat(isChatOpen,
                                  getActiveNote(r.notes, r.activeNoteId)))
           /\ lastCall' = [op |-> "deleteNote", id |-> notes[i].id,
                           by |-> "sidebar"]
           /\ quiet' = (quiet /\ ~ActiveObjChanged(notes, activeNoteId, r))
           /\ burstStart' = (IF ActiveObjChanged(notes, activeNoteId, r) THEN -1
                             ELSE burstStart)
    /\ calls' = calls + 1
    /\ UNCHANGED <<now, viewMode, isChatOpen, lastEditAt, commits,
                   keyHist, chatHist>>

\* Sidebar.handleAddNoteSubmit: addNote(title), then setActiveNote(newNoteId)
AddNoteSubmit ==
    /\ calls + 2 <= MaxNoteCalls
    /\ Len(notes) < MaxNotes
    /\ \E newNoteTitle \in NewNoteTitles, newId \in Ids :
        LET t == IF Truthy(trim(newNoteTitle)) THEN trim(newNoteTitle) ELSE UNTITLED
            r1 == addNote(notes, activeNoteId, <<t>>, newId, now)
            r2 == setActiveNote(r1.notes, r1.activeNoteId, r1.ret)
            r == [notes |-> r2.notes, activeNoteId |-> r2.activeNoteId,
                  origin |-> r1.origin]
        IN /\ Commit(r)
           /\ Show(SettleStore(Committed, r, timers))
           /\ ShowChat(RenderChat(isChatOpen,
                                  getActiveNote(r.notes, r.activeNoteId)))
           /\ lastCall' = [op |-> "setActiveNote", id |-> r1.ret, by |-> "sidebar"]
           /\ quiet' = (quiet /\ ~ActiveObjChanged(notes, activeNoteId, r))
           /\ burstStart' = (IF ActiveObjChanged(notes, activeNoteId, r) THEN -1
                             ELSE burstStart)
    /\ calls' = calls + 2
    /\ UNCHANGED <<now, viewMode, isChatOpen, lastEditAt, commits,
                   keyHist, chatHist>>

\* the moments the live timers are due
DueTimes ==
    {x.fireAt : x \in timers} \cup {chatTimers[i].fireAt : i \in 1..Len(chatTimers)}

\* time passes by a tick, or up to the moment the next timer is due if that
\* is sooner; a timer that is due fires before time goes on
Advance ==
    /\ \A t \in DueTimes : t > now
    /\ now' = IF \E t \in DueTimes : t < now + TickMs
              THEN CHOOSE t \in DueTimes : \A u \in DueTimes : t <= u
              ELSE now + TickMs

Elapse ==
    /\ now < StartTime + MaxNoteTicks * TickMs
    /\ Advance
    /\ UNCHANGED <<storeVars, lastCall, calls, noteVars, editHist, keyHist,
                   chatVars, chatHist>>

NextNote ==
    \/ TitleChange
    \/ ContentChange
    \/ TimerFire
    \/ KeyDown
    \/ NoteSelect
    \/ DeleteNote
    \/ AddNoteSubmit
    \/ Elapse

SpecNote == InitNote /\ [][NextNote]_vars

\* the note view under the user's edits and key events, with the sidebar's
\* delete button, all within the second before the autosave timer is due
NextKeys ==
    \/ TitleChange
    \/ ContentChange
    \/ KeyDown
    \/ DeleteNote

SpecKeys == InitNote /\ [][NextKeys]_vars

\* the store alone, called with addNote and deleteNote only
NextAddDelete ==
    \/ CallAddNote
    \/ CallDeleteNote
    \/ Tick

SpecAddDelete == Init /\ [][NextAddDelete]_vars

---------------------------------------------------------------------------
(* The chat panel: the Chat component (with the response matcher) of       *)
(* Chat.tsx, as Note.tsx mounts it                                         *)

\* FloatingButton onClick={toggleChat}: the button is rendered with a note
ToggleChat ==
    /\ ActiveNote # null
    /\ isChatOpen' = ~isChatOpen
    /\ ShowChat(RenderChat(~isChatOpen, ActiveNote))
    /\ UNCHANGED <<storeVars, now, lastCall, calls, title, content, isEdited,
                   saveStatus, viewMode, timers, saveTimeoutRef, editHist,
                   keyHist, chatHist>>

\* the close button of the Chat: onClose={() => setIsChatOpen(false)}
ChatClose ==
    /\ ChatMounted
    /\ isChatOpen' = FALSE
    /\ ShowChat(RenderChat(FALSE, ActiveNote))
    /\ UNCHANGED <<storeVars, now, lastCall, calls, title, content, isEdited,
                   saveStatus, viewMode, timers, saveTimeoutRef, editHist,
                   keyHist, chatHist>>

\* onChange of the chat input: setInputValue(e.target.value)
ChatInput ==
    /\ ChatMounted
    /\ \E v \in ChatInputs :
        /\ v # inputValue
        /\ inputValue' = v
    /\ UNCHANGED <<storeVars, now, lastCall, calls, noteVars, editHist, keyHist,
                   messages, isTyping, conversationContext, chatTimers,
                   chatHist>>

\* the same, typing the utterances of a longer conversation
TalkInput ==
    /\ ChatMounted
    /\ \E v \in TalkInputs :
        /\ v # inputValue
        /\ inputValue' = v
    /\ UNCHANGED <<storeVars, now, lastCall, calls, noteVars, editHist, keyHist,
                   messages, isTyping, conversationContext, chatTimers,
                   chatHist>>

\* handleSubmit: the form is submitted, by Enter or by the send button.  The
\* timer's callback keeps userQuery and the conversationContext of the render
\* the handler belongs to; before (history) are the contents of the messages
\* that precede the utterance.
HandleSubmit ==
    /\ ChatMounted
    /\ IF ~Truthy(trim(inputValue))
       THEN UNCHANGED <<chatVars, chatHist>>
       ELSE LET userMessage == [id |-> ToString(now), content |-> inputValue,
                                role |-> "user"]
                userQuery == inputValue
            IN /\ messages' = Append(messages, userMessage)
               /\ inputValue' = ""
               /\ isTyping' = TRUE
               /\ conversationContext' = ContextOf(Append(messages, userMessage),
                                                   conversationContext)
               /\ chatTimers' = Append(chatTimers,
                                       [fireAt |-> now + thinkingTime(userQuery),
                                        armedAt |-> now,
                                        query |-> userQuery,
                                        context |-> conversationContext,
                                        before |-> [k \in 1..Len(messages) |->
                                                       messages[k].content],
                                        orphan |-> FALSE,
                                        switched |-> FALSE])
               /\ submits' = submits + 1
               /\ UNCHANGED lastReply
    /\ UNCHANGED <<storeVars, now, lastCall, calls, noteVars, editHist, keyHist>>

\* the form of the chat is submitted, while notes are switched and the panel
\* is opened and closed
ChatSubmit ==
    /\ submits < MaxSubmits
    /\ HandleSubmit

\* the form of the chat is submitted, in a longer conversation
TalkSubmit ==
    /\ submits < MaxTalkSubmits
    /\ HandleSubmit

\* the sequence without its i-th element
RemoveAt(seq, i) == SubSeq(seq, 1, i - 1) \o SubSeq(seq, i + 1, Len(seq))

\* The timer of a submit fires: of the timers that are due, the one due first,
\* and of those due together the one armed first.  The callback of an
\* unmounted Chat runs as well; its state updates have no effect.
ReplyFire ==
    /\ \E i \in 1..Len(chatTimers), r \in Randoms :
        LET x == chatTimers[i]
            botMessage == [id |-> ToString(now + 1),
                           content |-> generateIntelligentResponse(x.query,
                                                                   x.context, r),
                           role |-> "bot"]
        IN /\ x.fireAt <= now
           /\ \A j \in 1..Len(chatTimers) :
                \/ chatTimers[j].fireAt > x.fireAt
                \/ chatTimers[j].fireAt = x.fireAt /\ j >= i
           /\ chatTimers' = RemoveAt(chatTimers, i)
           /\ IF x.orphan
              THEN UNCHANGED <<messages, isTyping, conversationContext>>
              ELSE /\ messages' = Append(messages, botMessage)
                   /\ isTyping' = FALSE
                   /\ conversationContext' = ContextOf(Append(messages, botMessage),
                                                       conversationContext)
           /\ lastReply' = [op |-> "reply", query |-> x.query,
                            context |-> x.context,
                            reply |-> botMessage.content,
                            delay |-> x.fireAt - x.armedAt,
                            appended |-> ~x.orphan, switched |-> x.switched,
                            overtakes |-> \E j \in 1..(i - 1) :
                                              ~chatTimers[j].orphan]
    /\ UNCHANGED <<storeVars, now, lastCall, calls, noteVars, editHist, keyHist,
                   inputValue, submits>>

ChatElapse ==
    /\ now < StartTime + MaxChatTicks * TickMs
    /\ Advance
    /\ UNCHANGED <<storeVars, lastCall, calls, noteVars, editHist, keyHist,
                   chatVars, chatHist>>

\* the note view with its chat panel, and the sidebar's note list
NextChat ==
    \/ ToggleChat
    \/ ChatClose
    \/ ChatInput
    \/ ChatSubmit
    \/ ReplyFire
    \/ NoteSelect
    \/ ChatElapse

SpecChat == InitNote /\ [][NextChat]_vars

\* the note view with the chat panel just opened: the Chat is mounted with
\* its initial state
InitTalk ==
    /\ StoreInit
    /\ HistInit
    /\ title = Mounted.title
    /\ content = Mounted.content
    /\ isEdited = Mounted.isEdited
    /\ saveStatus = Mounted.saveStatus
    /\ timers = Mounted.timers
    /\ saveTimeoutRef = Mounted.ref
    /\ viewMode = "richtext"
    /\ isChatOpen = TRUE
    /\ messages = <<welcome>>
    /\ inputValue = ""
    /\ isTyping = FALSE
    /\ conversationContext = <<>>
    /\ chatTimers = <<>>

\* one conversation: the user talks to the assistant in the open panel
NextTalk ==
    \/ TalkInput
    \/ TalkSubmit
    \/ ReplyFire
    \/ ChatElapse

SpecTalk == InitTalk /\ [][NextTalk]_vars

\* the utterances and the contexts the response matcher is tried on
Utterances ==
    {"hi", "thanks", "help", "ok", "heading", LONG_UTTERANCE,
     "I like markdown", "Tell me about keyboard shortcuts and markdown",
     "keyboard shortcuts and bold", "bold and lists", "save my note",
     "how does markdown work", "what writing tip", "what study method",
     "Do you have a template for meeting notes?", "template for meeting notes",
     "give me a template", "structure of a lecture", "project template",
     "a format for my journal",
     "How do I add a heading?", "what is a Heading", "How do I format a heading?",
     "hi, how do I add a heading?", "thanks, what about a heading?"}
Contexts == {<<>>, <<WELCOME, "I want to organize">>, <<"Focus">>}

\* the matcher alone: any utterance in the input, any context
InitMatcher ==
    /\ StoreInit
    /\ HistInit
    /\ title = ""
    /\ content = ""
    /\ isEdited = FALSE
    /\ saveStatus = "null"
    /\ viewMode = "richtext"
    /\ isChatOpen = FALSE
    /\ timers = {}
    /\ saveTimeoutRef = 0
    /\ messages = <<>>
    /\ isTyping = FALSE
    /\ chatTimers = <<>>
    /\ inputValue \in Utterances
    /\ conversationContext \in Contexts

\* generateIntelligentResponse(inputValue, conversationContext)
Respond ==
    /\ \E r \in Randoms :
        lastReply' = [op |-> "respond", query |-> inputValue,
                      context |-> conversationContext,
                      reply |-> generateIntelligentResponse(inputValue,
                                                            conversationContext, r)]
    /\ UNCHANGED <<storeVars, now, lastCall, calls, noteVars, editHist, keyHist,
                   chatVars, submits>>

NextMatcher ==
    \/ Respond

SpecMatcher == InitMatcher /\ [][NextMatcher]_vars

---------------------------------------------------------------------------
(* Claims                                                                  *)

\* a step that is one call of the store action op
IsCall(op) == calls' = calls + 1 /\ lastCall'.op = op

\* C1: in every state reached from the first-run state by addNote and
\* deleteNote calls (none included), activeNoteId is null or the id of a
\* note in notes.
C1_ActiveNoteIdValid ==
    \/ activeNoteId = NullId
    \/ \E i \in 1..Len(notes) : notes[i].id = activeNoteId

\* C2: on first run the store holds the two seed notes and the active note
\* is the first of them: activeNoteId is the id of notes[1].
C2_InitialActiveIsFirstSeed ==
    lastCall.op = "init" =>
        /\ Len(notes) = 2
        /\ notes[1].title = SEED_TITLE_1
        /\ notes[2].title = SEED_TITLE_2
        /\ activeNoteId = notes[1].id
        /\ getActiveNote(notes, activeNoteId) = notes[1]

\* every live autosave timer saves the text now in the editor to the note
\* now active, and there are unsaved edits
TimerMatchesSession ==
    \A x \in timers :
        /\ ActiveNote # null
        /\ x.save.noteId = ActiveNote.id
        /\ x.save.title = title
        /\ x.save.content = content
        /\ isEdited

\* a step that changes the active note from a note A to another note B while
\* an autosave timer is pending leaves no timer, leaves B's stored title and
\* content as they were, and shows B's stored text, unedited
SwitchDropsTimer ==
    LET a0 == ActiveNote
        a1 == getActiveNote(notes', activeNoteId')
        b0 == getNoteById(notes, OptId(a1))
    IN (a0 # null /\ a1 # null /\ a1.id # a0.id /\ timers # {}) =>
          /\ timers' = {}
          /\ b0 # null => (a1.title = b0.title /\ a1.content = b0.content)
          /\ title' = a1.title
          /\ content' = a1.content
          /\ ~isEdited'

\* C3: when the active note changes from A to B while an autosave timer armed
\* in A's session is pending, nothing typed in A's session is written into B:
\* the switch leaves B's stored title and content unchanged, and any timer
\* that can fire afterwards belongs to the session of the note then active.
C3_NoStaleWriteAfterSwitch ==
    [][SwitchDropsTimer /\ TimerMatchesSession']_vars

C3_Witness ==
    /\ lastCall.op = "setActiveNote"
    /\ calls = 2
    /\ lastEditAt >= 0
    /\ ~quiet
    /\ ActiveNote # null
    /\ ActiveNote.title = SEED_TITLE_2
    /\ title = SEED_TITLE_2
    /\ timers = {}

\* C4: no autosave commit is made while edits keep arriving less than 1000 ms
\* apart; when they stop, one updateNote call is made, for the active note,
\* with the final title and content, and no timer is left.
C4_DebounceCollapses ==
    [][ (IsCall("updateNote") /\ lastCall'.by = "timer") =>
          /\ lastEditAt >= 0
          /\ now - lastEditAt >= 1000
          /\ commits = 0
          /\ ActiveNote # null
          /\ lastCall'.id = ActiveNote.id
          /\ lastCall'.data = [title |-> title, content |-> content]
          /\ timers' = {} ]_vars

\* reached after a timer commit that covers edits made at two instants
C4_Witness ==
    /\ lastCall.op = "updateNote"
    /\ lastCall.by = "timer"
    /\ burstStart = -1
    /\ commits = 1
    /\ lastEditAt = StartTime + TickMs
    /\ now = lastEditAt + 1000
    /\ lastCall.data = [title |-> "T", content |-> "<p>X</p>"]

\* C5: an edit followed by at least 1000 ms without another edit, without
\* Ctrl+S and without a change of active note results in exactly one
\* updateNote call: none before the 1000 ms are over, one once they are.
C5_ExactlyOneCommit ==
    (quiet /\ lastEditAt >= 0 /\ ActiveNote # null) =>
        /\ commits <= 1
        /\ now - lastEditAt < 1000 => commits = 0
        /\ now - lastEditAt > 1000 => commits = 1

C5_Witness ==
    /\ quiet
    /\ lastEditAt >= 0
    /\ ActiveNote # null
    /\ now - lastEditAt > 1000
    /\ commits = 1
    /\ lastCall.op = "updateNote"
    /\ lastCall.by = "timer"

\* C6: every edit of a note's title or content is eventually saved to that
\* note, whatever the user does next.  Stated on steps: unsaved edits of the
\* active note are, after any step, saved in that note, or still in the editor
\* with a timer armed for them, unless the note was deleted.  Non-empty text
\* is enough to refute it.
C6_EditsNeverDropped ==
    [][ (isEdited /\ ActiveNote # null /\ Truthy(title) /\ Truthy(content)) =>
          LET a == ActiveNote
              n1 == getNoteById(notes', a.id)
          IN \/ n1 = null
             \/ n1.title = title /\ n1.content = content
             \/ /\ isEdited'
                /\ OptId(getActiveNote(notes', activeNoteId')) = a.id
                /\ timers' # {} ]_vars

\* C7: after updateNote(id, data) on an existing id every field provided in
\* data holds the provided value, the empty string included, and every field
\* not provided is unchanged.
C7_UpdateAppliesProvidedFields ==
    [][ (IsCall("updateNote") /\ findIndex(notes, lastCall'.id) # 0) =>
          LET i == findIndex(notes, lastCall'.id)
              d == lastCall'.data
          IN /\ Len(notes') = Len(notes)
             /\ notes'[i].title = (IF "title" \in DOMAIN d THEN d.title
                                   ELSE notes[i].title)
             /\ notes'[i].content = (IF "content" \in DOMAIN d THEN d.content
                                     ELSE notes[i].content)
             /\ notes'[i].chatHistory = (IF "chatHistory" \in DOMAIN d
                                         THEN d.chatHistory
                                         ELSE notes[i].chatHistory) ]_vars

\* C8: updateNote(id, {title, content}) with both equal to the note's current
\* values leaves the note, its lastUpdated included, unchanged.
C8_SameTitleContentIsNoOp ==
    [][ (/\ IsCall("updateNote")
         /\ findIndex(notes, lastCall'.id) # 0
         /\ DOMAIN lastCall'.data = {"title", "content"}
         /\ lastCall'.data.title = notes[findIndex(notes, lastCall'.id)].title
         /\ lastCall'.data.content = notes[findIndex(notes, lastCall'.id)].content)
        => notes' = notes ]_vars

\* reached after such a call on a note last updated before now
C8_Witness ==
    /\ lastCall.op = "updateNote"
    /\ DOMAIN lastCall.data = {"title", "content"}
    /\ findIndex(notes, lastCall.id) # 0
    /\ lastCall.data.title = notes[findIndex(notes, lastCall.id)].title
    /\ lastCall.data.content = notes[findIndex(notes, lastCall.id)].content
    /\ notes[findIndex(notes, lastCall.id)].lastUpdated < now

\* C9: updateNote(id, {chatHistory: h}) with h equal to the note's current
\* chatHistory is a complete no-op: the note, lastUpdated included, is unchanged.
C9_SameChatHistoryIsNoOp ==
    [][ (/\ IsCall("updateNote")
         /\ findIndex(notes, lastCall'.id) # 0
         /\ DOMAIN lastCall'.data = {"chatHistory"}
         /\ lastCall'.data.chatHistory
               = notes[findIndex(notes, lastCall'.id)].chatHistory)
        => notes' = notes ]_vars

\* C10: updateNote(id, data) with an id that matches no note leaves notes and
\* activeNoteId unchanged.
C10_UpdateUnknownIdIsNoOp ==
    [][ (IsCall("updateNote") /\ \A i \in 1..Len(notes) : notes[i].id # lastCall'.id) =>
          /\ notes' = notes
          /\ activeNoteId' = activeNoteId ]_vars

\* reached after such a call that provides every field, with notes present
C10_Witness ==
    /\ lastCall.op = "updateNote"
    /\ \A i \in 1..Len(notes) : notes[i].id # lastCall.id
    /\ DOMAIN lastCall.data = DataFields
    /\ lastCall.data.title = "A"
    /\ Len(notes) = 2

---------------------------------------------------------------------------
(* Claims on the store's deleteNote, addNote and addMessage, stated on the *)
(* last call: lastCall.pre is the store state the call started from.       *)

\* no two notes of ns share an id
DistinctIds(ns) ==
    \A i, j \in 1..Len(ns) : ns[i].id = ns[j].id => i = j

\* no note of ns has the id
Unknown(ns, id) == \A i \in 1..Len(ns) : ns[i].id # id

\* ns without its element at index i
Without(ns, i) ==
    [j \in 1..(Len(ns) - 1) |-> IF j < i THEN ns[j] ELSE ns[j + 1]]

\* C11: deleteNote(id) with an id that matches no note leaves notes and
\* activeNoteId unchanged, in every reachable state.
C11_DeleteUnknownIdIsNoOp ==
    (lastCall.op = "deleteNote" /\ Unknown(lastCall.pre.notes, lastCall.id)) =>
        /\ notes = lastCall.pre.notes
        /\ activeNoteId = lastCall.pre.activeNoteId

\* C12: deleteNote(id) of an existing note removes exactly that note; if it
\* was the active note and other notes remain, activeNoteId becomes the id of
\* the first remaining note; if it was not the active note, activeNoteId is
\* unchanged.  Stated for collections without duplicate ids.
C12_DeleteRepairsActive ==
    (/\ lastCall.op = "deleteNote"
     /\ ~Unknown(lastCall.pre.notes, lastCall.id)
     /\ DistinctIds(lastCall.pre.notes)) =>
        LET p == lastCall.pre
            i == findIndex(p.notes, lastCall.id)
        IN /\ notes = Without(p.notes, i)
           /\ (p.activeNoteId = lastCall.id /\ Len(p.notes) > 1)
                 => activeNoteId = notes[1].id
           /\ p.activeNoteId # lastCall.id => activeNoteId = p.activeNoteId

\* C13: deleteNote of the only remaining note leaves notes empty and
\* activeNoteId null, and getActiveNote() then returns null.
C13_DeleteLastNoteClearsActive ==
    (/\ lastCall.op = "deleteNote"
     /\ Len(lastCall.pre.notes) = 1
     /\ lastCall.pre.notes[1].id = lastCall.id) =>
        /\ notes = <<>>
        /\ activeNoteId = NullId
        /\ getActiveNote(notes, activeNoteId) = null

\* reached by deleting the only note left while activeNoteId was not null
C13_Witness ==
    /\ lastCall.op = "deleteNote"
    /\ Len(lastCall.pre.notes) = 1
    /\ lastCall.pre.notes[1].id = lastCall.id
    /\ lastCall.pre.activeNoteId # NullId
    /\ notes = <<>>
    /\ activeNoteId = NullId

\* the title argument of the last addNote call, "" when omitted
GivenTitle == IF lastCall.title = <<>> THEN "" ELSE lastCall.title[1]

\* C14: addNote appends exactly one new note at the end of notes, the notes
\* already there and their order unchanged; the new note has an empty chat
\* history, activeNoteId is its id, and that id is what addNote returns.
C14_AddNoteAppendsAndActivates ==
    lastCall.op = "addNote" =>
        LET p == lastCall.pre
        IN /\ Len(notes) = Len(p.notes) + 1
           /\ SubSeq(notes, 1, Len(p.notes)) = p.notes
           /\ notes[Len(notes)].chatHistory = <<>>
           /\ activeNoteId = notes[Len(notes)].id
           /\ lastCall.ret = notes[Len(notes)].id

\* reached by addNote on the two seed notes with another note active before
C14_Witness ==
    /\ lastCall.op = "addNote"
    /\ Len(lastCall.pre.notes) = 2
    /\ lastCall.pre.activeNoteId # lastCall.ret
    /\ Len(notes) = 3
    /\ activeNoteId = lastCall.ret

\* C15: addNote with no title, an empty title or a whitespace-only title
\* creates a note titled "Untitled Note"; with any other title it creates a
\* note with exactly that title.
C15_BlankTitleDefaults ==
    lastCall.op = "addNote" =>
        notes[Len(notes)].title =
            (IF trim(GivenTitle) = "" THEN UNTITLED ELSE GivenTitle)

\* C16: the id addNote assigns differs from the id of every note already
\* present, so notes whose ids are distinct keep distinct ids.
C16_AddNoteIdIsFresh ==
    (lastCall.op = "addNote" /\ DistinctIds(lastCall.pre.notes)) =>
        /\ Unknown(lastCall.pre.notes, lastCall.ret)
        /\ DistinctIds(notes)

\* s is a prefix of t
IsPrefix(s, t) == Len(s) <= Len(t) /\ SubSeq(t, 1, Len(s)) = s

\* C17: addMessage(noteId, {content, sender}) on an existing note appends one
\* message with that content and sender at the end of the note's chatHistory
\* and sets its lastUpdated to the time of the call; every other note, the
\* note's other fields and activeNoteId are unchanged.  On a noteId that
\* matches no note the store state is unchanged.
C17_AddMessageAppends ==
    lastCall.op = "addMessage" =>
        LET p == lastCall.pre
            i == findIndex(p.notes, lastCall.id)
        IN IF Unknown(p.notes, lastCall.id)
           THEN notes = p.notes /\ activeNoteId = p.activeNoteId
           ELSE /\ Len(notes) = Len(p.notes)
                /\ \A j \in 1..Len(notes) : j # i => notes[j] = p.notes[j]
                /\ Len(notes[i].chatHistory) = Len(p.notes[i].chatHistory) + 1
                /\ IsPrefix(p.notes[i].chatHistory, notes[i].chatHistory)
                /\ LET m == notes[i].chatHistory[Len(notes[i].chatHistory)]
                   IN /\ m.content = lastCall.message.content
                      /\ m.sender = lastCall.message.sender
                /\ notes[i].lastUpdated = lastCall.at
                /\ notes[i].id = p.notes[i].id
                /\ notes[i].title = p.notes[i].title
                /\ notes[i].content = p.notes[i].content
                /\ activeNoteId = p.activeNoteId

\* reached by a second addMessage on a note, later than the first
C17_Witness ==
    /\ lastCall.op = "addMessage"
    /\ ~Unknown(lastCall.pre.notes, lastCall.id)
    /\ LET i == findIndex(lastCall.pre.notes, lastCall.id)
       IN /\ Len(lastCall.pre.notes[i].chatHistory) = 1
          /\ Len(notes[i].chatHistory) = 2
          /\ notes[i].chatHistory[1].content # notes[i].chatHistory[2].content
          /\ lastCall.pre.notes[i].lastUpdated < notes[i].lastUpdated

\* index after deleteNote(id) of the note that was at index i, for a note kept
IndexAfterDelete(ns, id, i) ==
    i - Cardinality({k \in 1..(i - 1) : ns[k].id = id})

\* every note of the store state p that the last call did not delete has, in
\* notes, a chatHistory that its chatHistory in p is a prefix of
HistoriesExtended ==
    LET p == lastCall.pre
    IN IF lastCall.op = "deleteNote"
       THEN \A i \in 1..Len(p.notes) :
              p.notes[i].id # lastCall.id =>
                IsPrefix(p.notes[i].chatHistory,
                         notes[IndexAfterDelete(p.notes, lastCall.id, i)].chatHistory)
       ELSE /\ Len(notes) >= Len(p.notes)
            /\ \A i \in 1..Len(p.notes) :
                  IsPrefix(p.notes[i].chatHistory, notes[i].chatHistory)

\* the last call is one of the five store actions
IsStoreAction ==
    lastCall.op \in {"addNote", "updateNote", "deleteNote", "setActiveNote",
                     "addMessage"}

\* C18: a note's chatHistory is append-only across every store action: its
\* chatHistory before the action is a prefix of its chatHistory after it.
C18_ChatHistoryAppendOnly ==
    IsStoreAction => HistoriesExtended

\* C18, amended: the same for every store action but an updateNote call whose
\* data provides a chatHistory; such a call on an existing note sets the
\* note's chatHistory to the provided one and leaves the other notes'
\* histories alone.
C18_AppendOnlyButUpdateWithHistory ==
    IsStoreAction =>
        IF lastCall.op = "updateNote" /\ "chatHistory" \in DOMAIN lastCall.data
        THEN LET p == lastCall.pre
                 i == findIndex(p.notes, lastCall.id)
             IN /\ Len(notes) = Len(p.notes)
                /\ \A j \in 1..Len(notes) :
                     notes[j].chatHistory =
                        (IF j = i THEN lastCall.data.chatHistory
                         ELSE p.notes[j].chatHistory)
        ELSE HistoriesExtended

\* reached by an updateNote without chatHistory that changes a note with messages
C18_Witness ==
    /\ lastCall.op = "updateNote"
    /\ "chatHistory" \notin DOMAIN lastCall.data
    /\ ~Unknown(lastCall.pre.notes, lastCall.id)
    /\ LET i == findIndex(lastCall.pre.notes, lastCall.id)
       IN /\ Len(lastCall.pre.notes[i].chatHistory) = 1
          /\ notes[i].title # lastCall.pre.notes[i].title
          /\ notes[i].chatHistory = lastCall.pre.notes[i].chatHistory

\* r is an order-preserving subsequence of ns
IsSubsequence(r, ns) ==
    \E f \in [1..Len(r) -> 1..Len(ns)] :
        /\ \A a, b \in 1..Len(r) : a < b => f[a] < f[b]
        /\ \A k \in 1..Len(r) : r[k] = ns[f[k]]

\* the search term is empty or consists of white space only
IsBlankTerm(term) == \A i \in 1..Len(Chars(term)) : Chars(term)[i] = " "

\* C19: getFilteredNotes with an empty or whitespace-only search term
\* returns all notes in their stored order, and for every search term the
\* result is an order-preserving subsequence of notes.
C19_FilterIsSubsequence ==
    lastCall.op = "getFilteredNotes" =>
        /\ IsBlankTerm(lastCall.term) => lastCall.ret = notes
        /\ IsSubsequence(lastCall.ret, notes)

\* reached by a search that keeps the second seed note only, by its title in
\* another case
C19_Witness ==
    /\ lastCall.op = "getFilteredNotes"
    /\ lastCall.term = "TIPTAP"
    /\ Len(notes) = 2
    /\ lastCall.ret = <<notes[2]>>

\* C20: after every mutating store action the stored snapshot, read back, is
\* the in-memory {notes, activeNoteId}; and a restart that finds a snapshot
\* yields notes and activeNoteId equal to those before the shutdown.
C20_SnapshotRoundTrip ==
    /\ IsStoreAction =>
          /\ storage # <<>>
          /\ parse(storage[1]) = [notes |-> notes, activeNoteId |-> activeNoteId]
    /\ (lastCall.op = "restart" /\ lastCall.stored) =>
          /\ notes = lastCall.pre.notes
          /\ activeNoteId = lastCall.pre.activeNoteId

\* reached by a restart after addMessage: the snapshot holds a message
C20_Witness ==
    /\ lastCall.op = "restart"
    /\ lastCall.stored
    /\ calls = 2
    /\ notes = lastCall.pre.notes
    /\ \E i \in 1..Len(notes) : Len(notes[i].chatHistory) = 1

---------------------------------------------------------------------------
(* Claims on the keyboard shortcuts, stated on the step of one key event:  *)
(* KeyEvent(mod, key) holds of a step that is handleKeyDown on that event.  *)

\* the state of the program; quiet and prevented are history of the events
ProgramState ==
    <<storeVars, now, lastCall, calls, noteVars, lastEditAt, burstStart,
      commits, chatVars, chatHist>>

\* C21: a key event with Ctrl or Meta and the key s (either case) commits the
\* editor's current title and content with one updateNote call, at once,
\* exactly when a note is active and there are unsaved edits; when either
\* precondition fails it calls no store action and changes no state.
C21_SaveShortcutCommits ==
    [][\A mod \in Modifiers, key \in {"s", "S"} :
         (mod[1] \/ mod[2]) /\ KeyEvent(mod, key) =>
            IF isEdited /\ getActiveNote(notes, activeNoteId) # null
            THEN /\ calls' = calls + 1
                 /\ lastCall'.op = "updateNote"
                 /\ lastCall'.id = activeNoteId
                 /\ lastCall'.data = [title |-> title, content |-> content]
                 /\ now' = now
                 /\ lastCall'.by = "shortcut"
            ELSE UNCHANGED ProgramState]_vars

\* the shortcut has saved the title typed into the editor, before the
\* autosave timer was due
C21_Witness ==
    /\ lastCall.op = "updateNote"
    /\ "by" \in DOMAIN lastCall
    /\ lastCall.by = "shortcut"
    /\ lastCall.data.title = "T"
    /\ getActiveNote(notes, activeNoteId).title = "T"
    /\ ~isEdited
    /\ now = lastEditAt

\* C22: a key event with Ctrl or Meta and the key s, m or / (either case) has
\* its default prevented, also when nothing is saved; any other key event is
\* not prevented and changes no state: not the view mode, not the chat's
\* visibility, not the store.
C22_ShortcutsPreventDefault ==
    [][\A mod \in Modifiers, key \in Keys :
         KeyEvent(mod, key) =>
            IF (mod[1] \/ mod[2]) /\ key \in {"s", "S", "m", "M", "/"}
            THEN prevented'
            ELSE ~prevented' /\ UNCHANGED <<ProgramState, quiet>>]_vars

\* a key event was prevented that saved nothing and changed nothing
C22_Witness ==
    /\ prevented
    /\ calls = 0
    /\ lastEditAt = -1
    /\ ~isEdited
    /\ viewMode = "richtext"
    /\ ~isChatOpen

---------------------------------------------------------------------------
(* Claims on the chat panel's timers                                       *)

\* C23: once the chat panel is closed or the active note is switched, no
\* outstanding typing timer has an effect: the reply of an utterance
\* submitted before is not appended afterwards.
C23_NoReplyAfterCloseOrSwitch ==
    lastReply.op = "reply" /\ lastReply.switched => ~lastReply.appended

\* the thinking delay 1000 + 20 * length, at most 3000
ExpectedDelay(n) == IF 1000 + 20 * n > 3000 THEN 3000 ELSE 1000 + 20 * n

\* C29: the thinking delay of an utterance is min(1000 + 20 * length, 3000)
\* milliseconds: never below 1000, never above 3000, and not shorter for a
\* longer utterance.
C29_ThinkingDelay ==
    \A i \in 1..Len(chatTimers) :
        LET d == chatTimers[i].fireAt - chatTimers[i].armedAt
        IN /\ d = ExpectedDelay(Len(chatTimers[i].query))
           /\ d >= 1000
           /\ d <= 3000
           /\ \A j \in 1..Len(chatTimers) :
                Len(chatTimers[j].query) <= Len(chatTimers[i].query)
                    => chatTimers[j].fireAt - chatTimers[j].armedAt <= d

\* a short utterance and one of more than 100 characters are pending, the
\* long one with the delay at its cap
C29_Witness ==
    \E i, j \in 1..Len(chatTimers) :
        /\ Len(chatTimers[i].query) > 100
        /\ chatTimers[i].fireAt - chatTimers[i].armedAt = 3000
        /\ Len(chatTimers[j].query) = 2
        /\ chatTimers[j].fireAt - chatTimers[j].armedAt = 1040

\* C30: at most one typing timer of the chat is live at a time: a submit
\* while a reply is pending cancels the pending timer and replaces it.
C30_AtMostOneTypingTimer ==
    Len(chatTimers) <= 1

---------------------------------------------------------------------------
(* Claims on the response matcher, stated on the last reply of Respond     *)

\* the lower-cased utterance of the last reply, as characters
RepliedTo == LowerChars(Chars(lastReply.query))

\* a question marker: "?", "how" or "what"
HasMarker(ql) == Has(ql, "?") \/ Has(ql, "how") \/ Has(ql, "what")

\* s ends with t
IsSuffix(t, s) == Len(t) <= Len(s) /\ SubSeq(s, Len(s) - Len(t) + 1, Len(s)) = t

\* the notice on the formatting topics, whatever topics it lists
IsFormattingNotice(s) ==
    /\ IsPrefix("I see you're interested in ", s)
    /\ IsSuffix(". You can access these formatting options in the toolbar above the editor. Would you like specific instructions?", s)

\* C24: an utterance with at least one keyword of the note-topic vocabulary
\* and none of "?", "how", "what" gets a topic notice: the markdown notice,
\* else the keyboard-shortcuts notice, else the formatting notice.
C24_TopicNoticeByPriority ==
    lastReply.op = "respond"
        /\ (\E i \in 1..Len(NOTE_TOPICS) : Has(RepliedTo, NOTE_TOPICS[i]))
        /\ ~HasMarker(RepliedTo)
        => IF Has(RepliedTo, "markdown") THEN lastReply.reply = MARKDOWN_NOTICE
           ELSE IF Has(RepliedTo, "keyboard shortcuts")
           THEN lastReply.reply = SHORTCUTS_NOTICE
           ELSE IsFormattingNotice(lastReply.reply)

\* C25, as stated: every utterance with "markdown" and no "?" gets the
\* markdown topic notice, not the reply to a direct question on markdown.
C25_MarkdownWithoutQuestionMark ==
    lastReply.op = "respond" /\ Has(RepliedTo, "markdown") /\ ~Has(RepliedTo, "?")
        => lastReply.reply = MARKDOWN_NOTICE

\* C25, amended: every utterance with "markdown" and none of "?", "how",
\* "what" gets the markdown topic notice.
C25_MarkdownWithoutMarker ==
    lastReply.op = "respond" /\ Has(RepliedTo, "markdown") /\ ~HasMarker(RepliedTo)
        => lastReply.reply = MARKDOWN_NOTICE

\* markdown is mentioned next to a topic of lower priority
C25_Witness ==
    /\ lastReply.op = "respond"
    /\ lastReply.query = "Tell me about keyboard shortcuts and markdown"
    /\ lastReply.reply = MARKDOWN_NOTICE

\* C26: an utterance with a template keyword (template, "type of note",
\* structure, "format for") and a note-kind keyword gets the template of that
\* kind, as "Do you have a template for meeting notes?" of the help reply;
\* with no note-kind keyword it gets the template menu.
C26_TemplateRequest ==
    lastReply.op = "respond"
        /\ \/ Has(RepliedTo, "template") \/ Has(RepliedTo, "type of note")
           \/ Has(RepliedTo, "structure") \/ Has(RepliedTo, "format for")
        => IF Has(RepliedTo, "meeting") \/ Has(RepliedTo, "minutes")
           THEN lastReply.reply = MEETING_TEMPLATE
           ELSE IF \/ Has(RepliedTo, "lecture") \/ Has(RepliedTo, "class")
                   \/ Has(RepliedTo, "course")
           THEN lastReply.reply = LECTURE_TEMPLATE
           ELSE IF Has(RepliedTo, "project") \/ Has(RepliedTo, "plan")
           THEN lastReply.reply = PROJECT_TEMPLATE
           ELSE IF \/ Has(RepliedTo, "daily") \/ Has(RepliedTo, "journal")
                   \/ Has(RepliedTo, "diary")
           THEN lastReply.reply = JOURNAL_TEMPLATE
           ELSE lastReply.reply = TEMPLATE_MENU

\* no rule on the utterance matches: topic scan, greeting, gratitude, feature
\* questions, templates, help
NoRuleMatches(ql) ==
    /\ TopicNotice(ql) = NoReply
    /\ Greeting(ql) = NoReply
    /\ Gratitude(ql) = NoReply
    /\ \A r \in Randoms : FeatureQuestion(ql, r) = NoReply
    /\ TemplateRequest(ql) = NoReply
    /\ HelpRequest(ql) = NoReply

\* C27: when no rule matches the utterance and the context is empty, the
\* reply is one of the five fallback strings, and the echoing one holds the
\* first 30 characters of the utterance as typed, not lower-cased.
C27_FallbackEchoesUtterance ==
    lastReply.op = "respond" /\ lastReply.context = <<>> /\ NoRuleMatches(RepliedTo)
        => lastReply.reply \in
              { FALLBACK_1,
                FALLBACK_ECHO_HEAD
                    \o SubSeq(lastReply.query, 1,
                              IF Len(lastReply.query) > 30 THEN 30
                              ELSE Len(lastReply.query))
                    \o FALLBACK_ECHO_TAIL,
                FALLBACK_3, FALLBACK_4, FALLBACK_5 }

\* the echo of an utterance of more than 30 characters with capitals
C27_Witness ==
    /\ lastReply.op = "respond"
    /\ lastReply.context = <<>>
    /\ lastReply.query = LONG_UTTERANCE
    /\ lastReply.reply = FALLBACK_ECHO_HEAD \o "Zebras Quickly Jump Over Seven"
                             \o FALLBACK_ECHO_TAIL

\* C28: an utterance with a question marker and the word "heading" that
\* matches neither the topic scan, the greeting, the gratitude pattern nor
\* the formatting category gets the headings reply; "How do I add a
\* heading?" does.
C28_HeadingsQuestion ==
    lastReply.op = "respond"
        /\ HasMarker(RepliedTo)
        /\ Has(RepliedTo, "heading")
        /\ TopicNotice(RepliedTo) = NoReply
        /\ Greeting(RepliedTo) = NoReply
        /\ Gratitude(RepliedTo) = NoReply
        /\ ~(\/ Has(RepliedTo, "format") \/ Has(RepliedTo, "bold")
             \/ Has(RepliedTo, "italic") \/ Has(RepliedTo, "underline"))
        => lastReply.reply = HEADINGS_REPLY

C28_Witness ==
    /\ lastReply.op = "respond"
    /\ lastReply.query = "How do I add a heading?"
    /\ lastReply.reply = HEADINGS_REPLY

---------------------------------------------------------------------------
(* Claims on the autosave timer and the save status                        *)

\* C31: at most one autosave timer is armed at any time: arming cancels the
\* timer armed before, and no timer survives a change of title, content,
\* edited flag or active note: a timer that is armed is the one the ref
\* holds, was armed after the last edit, and is for the unsaved title and
\* content shown and for the active note.
C31_AtMostOneAutosaveTimer ==
    /\ Cardinality(timers) <= 1
    /\ \A x \in timers :
        /\ x.h = saveTimeoutRef
        /\ isEdited
        /\ getActiveNote(notes, activeNoteId) # null
        /\ x.save.noteId = activeNoteId
        /\ x.save.title = title
        /\ x.save.content = content
        /\ x.fireAt >= lastEditAt + 1000

\* the timer of a first edit was replaced by the timer of a later edit
C31_Witness ==
    /\ Cardinality(timers) = 1
    /\ burstStart >= 0
    /\ lastEditAt > burstStart
    /\ \A x \in timers : x.fireAt = lastEditAt + 1000

\* C32: whenever the save status is "saving", an autosave timer is armed for
\* the active note, so that "saved" follows; the status is never "saving"
\* with no commit pending, not after a switch of notes with unsaved edits
\* either.
C32_SavingHasTimer ==
    saveStatus = "saving" =>
        \E x \in timers :
            /\ getActiveNote(notes, activeNoteId) # null
            /\ x.save.noteId = activeNoteId

\* C33: whenever a note is active, the save status is "saved" and there are
\* no unsaved edits, the active note's title and content in the store are
\* the title and content shown in the editor, also after the title or the
\* content was cleared and the save has run.
C33_SavedMeansStored ==
    (getActiveNote(notes, activeNoteId) # null /\ saveStatus = "saved" /\ ~isEdited)
        => /\ getActiveNote(notes, activeNoteId).title = title
           /\ getActiveNote(notes, activeNoteId).content = content

\* C34: after a commit by Ctrl/Meta+S the debounce timer that was pending for
\* the same edits makes no second commit: since the last edit at most one
\* updateNote call was made, by the shortcut or by the timer, and after the
\* shortcut's commit no timer is left.
C34_NoSecondCommit ==
    /\ commits <= 1
    /\ (lastCall.op = "updateNote" /\ lastCall.by = "shortcut" /\ commits = 1
            /\ ~isEdited)
         => timers = {}

\* the shortcut has committed, and the second in which the timer of the edit
\* would have fired is over
C34_Witness ==
    /\ lastCall.op = "updateNote"
    /\ lastCall.by = "shortcut"
    /\ commits = 1
    /\ lastEditAt >= 0
    /\ now >= lastEditAt + 1000
    /\ timers = {}


---------------------------------------------------------------------------
(* Claims on the conversation with the assistant.                          *)

\* C35: bot replies are appended in the order of the utterances they answer:
\* a reply that is appended never overtakes an utterance submitted earlier
\* in the same chat that still waits for its reply.
C35_RepliesInOrder ==
    (lastReply.op = "reply" /\ lastReply.appended) => ~lastReply.overtakes

\* a reply of the mounted Chat is pending
ReplyPending == \E i \in 1..Len(chatTimers) : ~chatTimers[i].orphan

\* C36: isTyping is true exactly while at least one bot reply of the chat is
\* pending; it is never false while a submitted utterance has no reply yet.
C36_TypingWhilePending == ChatMounted => (isTyping <=> ReplyPending)

\* the last k elements of a sequence
LastOf(seq, k) == SubSeq(seq, Len(seq) - k + 1, Len(seq))

\* C38: the context handed to the matcher with an utterance has at most 5
\* entries and is an end piece, in order, of the contents of the messages that
\* precede the utterance (the utterance itself is not among them): it is the
\* last five of them, all of them when there are two to five, and empty when
\* only the welcome message precedes.
C38_ContextIsRecentMessages ==
    \A i \in 1..Len(chatTimers) :
        LET x == chatTimers[i]
        IN /\ Len(x.context) <= 5
           /\ Len(x.context) <= Len(x.before)
           /\ x.context = LastOf(x.before, Len(x.context))
           /\ Len(x.before) > 1 => Len(x.context) = Min(Len(x.before), 5)

\* an utterance preceded by more than five messages waits for its reply
C38_Witness ==
    \E i \in 1..Len(chatTimers) :
        /\ Len(chatTimers[i].before) > 5
        /\ Len(chatTimers[i].context) = 5
        /\ chatTimers[i].context # chatTimers[i].before


\* the first rule that matches the utterance draws its reply: the writing tip
\* or the study technique of the feature questions
RuleDraws(ql) ==
    /\ TopicNotice(ql) = NoReply
    /\ Greeting(ql) = NoReply
    /\ Gratitude(ql) = NoReply
    /\ \E r \in Randoms :
          \/ IsPrefix("Here's a writing tip: ", FeatureQuestion(ql, r))
          \/ IsPrefix("You might want to try the **", FeatureQuestion(ql, r))

---------------------------------------------------------------------------
(* Claims on the sidebar's list and on what the store's actions leave      *)
(* alone                                                                   *)

\* C39: the list of notes the sidebar shows for a search term equals
\* getFilteredNotes(searchTerm) of the store: a note is shown exactly when the
\* term occurs, case-insensitively, in its title or in its content with the
\* markup stripped.
C39_SidebarShowsFilteredNotes ==
    lastCall.op = "search"
    => lastCall.shown = getFilteredNotes(notes, lastCall.term)


\* the ids of the notes, in their order
IdsOf(ns) == [i \in 1..Len(ns) |-> ns[i].id]

\* C40: updateNote, addMessage and setActiveNote change neither the number nor
\* the order nor the ids of the notes; the selector getFilteredNotes changes
\* nothing (no note, no lastUpdated, no activeNoteId); deleteNote of an
\* existing note removes exactly that one note and keeps the others in their
\* order.
C40_ActionsKeepTheNotes ==
    LET p == lastCall.pre
    IN /\ lastCall.op \in {"updateNote", "addMessage", "setActiveNote"}
            => IdsOf(notes) = IdsOf(p.notes)
       /\ lastCall.op = "getFilteredNotes"
            => notes = p.notes /\ activeNoteId = p.activeNoteId
       /\ (lastCall.op = "deleteNote" /\ ~Unknown(p.notes, lastCall.id))
            => \E i \in 1..Len(p.notes) :
                 /\ p.notes[i].id = lastCall.id
                 /\ notes = RemoveAt(p.notes, i)

====
